---- MODULE Spec2Model ----
(***************************************************************************)
(* Model of the timetable notification bot (bot_global.py): the event      *)
(* identity model (ScheduleEvent), the per-group schedule cache with its   *)
(* change detection (ScheduleCache), and the handlers that drive it (the   *)
(* periodic detection job, /group, the change-notification toggle).        *)
(*                                                                         *)
(* Text is modelled as a sequence of whitespace-separated tokens; the      *)
(* Cyrillic literals of the source are transliterated to ASCII             *)
(* ("(pidgr. 1)" for the subgroup marker, "101.aud." for a room token,     *)
(* "dystantsiyno" for the remote marker, "(L)" for a lesson-type code in   *)
(* parentheses).  Timestamps are whole minutes counted as integers.        *)
(***************************************************************************)
EXTENDS Integers, Sequences, FiniteSets, TLC

VARIABLES
    cache,      \* ScheduleCache._group_caches: group id -> list of events
    disk,       \* contents of the cache file schedule_cache_global.json
    now,        \* the wall clock, datetime.now(TIMEZONE)
    users,      \* UserManager.users: chat id -> settings
    running,    \* ScheduleBot._schedule_check_running
    job,        \* per invocation of _check_schedule_changes_job: its position and locals
    ioFaults,   \* whether writes of the cache file may fail in this run
    log,        \* history: the handler that took the last step and the groups it fetched
    ret,        \* history: the last direct call of update_and_detect_changes and its result
    arg,        \* the input a function is applied to, where one is studied on its own
    res         \* the result of that application

vars == <<cache, disk, now, users, running, job, ioFaults, log, ret, arg, res>>

----------------------------------------------------------------------------
(* Bounds *)

MaxEvents == 2      \* longest event list handed to update_and_detect_changes
MaxFetch  == 1      \* longest event list a fetch returns to the bot's handlers
MaxNow    == 2      \* the clock runs from 1 to MaxNow
NumJobs   == 2      \* invocations of the detection job that may overlap

Groups == {"g1", "g2"}
ChatOrder == <<1, 2>>       \* the chats, in the order of the users dict
Chats  == {ChatOrder[i] : i \in 1..Len(ChatOrder)}
Jobs   == 1..NumJobs
NoGroup == "none"   \* UserSettings.group_id = None

----------------------------------------------------------------------------
(* Text helpers *)

RemoteWords == {"dystantsiyno", "Dystantsiyno", "DYSTANTSIYNO"}
SubgroupMarkers == {"(pidgr. 1)", "(pidgr. 2)"}
RoomTokens == {"101.aud.", "102.aud."}
Titles == {"dotsent", "profesor", "vykladach", "asystent", "zav.kaf."}
CapWords == {"Math", "Physics", "Ivanenko", "Ivan", "Petrovych", "Smith", "Jones"}
Initials == {"I.", "I.P."}

Lower(tok) ==
    CASE tok = "(L)"  -> "(l)"
      [] tok = "(Pr)" -> "(pr)"
      [] tok \in RemoteWords -> "dystantsiyno"
      [] OTHER -> tok

RECURSIVE RemoveAll(_, _)
\* str.replace(pat, ''): every non-overlapping occurrence of pat, left to right
RemoveAll(text, pat) ==
    IF pat = <<>> \/ Len(text) < Len(pat) THEN text
    ELSE IF SubSeq(text, 1, Len(pat)) = pat
         THEN RemoveAll(SubSeq(text, Len(pat) + 1, Len(text)), pat)
         ELSE <<Head(text)>> \o RemoveAll(Tail(text), pat)

RECURSIVE StripTitledNames(_)
\* first re.sub of the role-qualified names: title, two capitalized words,
\* optionally a third
StripTitledNames(text) ==
    IF Len(text) < 3 THEN text
    ELSE IF text[1] \in Titles /\ text[2] \in CapWords /\ text[3] \in CapWords
         THEN IF Len(text) >= 4 /\ text[4] \in CapWords
              THEN StripTitledNames(SubSeq(text, 5, Len(text)))
              ELSE StripTitledNames(SubSeq(text, 4, Len(text)))
         ELSE <<Head(text)>> \o StripTitledNames(Tail(text))

RECURSIVE StripTitledInitials(_)
\* second re.sub: title, capitalized surname, initials
StripTitledInitials(text) ==
    IF Len(text) < 3 THEN text
    ELSE IF text[1] \in Titles /\ text[2] \in CapWords /\ text[3] \in Initials
         THEN StripTitledInitials(SubSeq(text, 4, Len(text)))
         ELSE <<Head(text)>> \o StripTitledInitials(Tail(text))

RECURSIVE Join(_, _)
\* sep.join(parts) for a list of token sequences
Join(parts, sep) ==
    IF parts = <<>> THEN <<>>
    ELSE IF Len(parts) = 1 THEN parts[1]
    ELSE parts[1] \o <<sep>> \o Join(Tail(parts), sep)

----------------------------------------------------------------------------
(* ScheduleEvent *)

CleanSubject(text, event_type, teacher) ==
    LET t1 == SelectSeq(text, LAMBDA tok : tok \notin RemoteWords)
        t2 == IF event_type # ""
              THEN SelectSeq(t1, LAMBDA tok : Lower(tok) # Lower("(" \o event_type \o ")"))
              ELSE t1
        t3 == IF teacher # <<>> THEN RemoveAll(t2, teacher) ELSE t2
        t4 == SelectSeq(t3, LAMBDA tok : tok \notin SubgroupMarkers)
        t5 == StripTitledNames(t4)
        t6 == StripTitledInitials(t5)
        t7 == SelectSeq(t6, LAMBDA tok : tok \notin RoomTokens)
    IN  SelectSeq(t7, LAMBDA tok : tok # "*")

IsoFormat(t) == "T" \o ToString(t)
StrfMinute(t) == "M" \o ToString(t)

\* hashlib.md5(...).hexdigest()[:8]: the digest is taken to be collision-free
\* on the inputs of the model, so it is represented by its tagged input
Md5Hex8(key_data) == <<"md5">> \o key_data

\* variant: the remote flag is left out of key_data
KeyDataNoRemote(start_time, subject, teacher, room, group, is_remote, links) ==
    Join(<< <<IsoFormat(start_time)>>, subject, teacher,
            IF room = "" THEN <<>> ELSE <<room>>,
            IF group = "" THEN <<>> ELSE <<group>>,
            Join([i \in 1..Len(links) |-> <<links[i]>>], ",") >>, "-")

\* links_str and key_data of _calculate_hash: the fields in a fixed order,
\* joined with "-", the links joined with ","
KeyData(start_time, subject, teacher, room, group, is_remote, links) ==
    Join(<< <<IsoFormat(start_time)>>, subject, teacher,
            IF room = "" THEN <<>> ELSE <<room>>,
            IF group = "" THEN <<>> ELSE <<group>>,
            <<IF is_remote THEN "True" ELSE "False">>,
            Join([i \in 1..Len(links) |-> <<links[i]>>], ",") >>, "-")

\* variant: the room is left out of the digest's input
CalculateHashNoRoom(start_time, subject, teacher, room, group, is_remote, links) ==
    Md5Hex8(Join(<< <<IsoFormat(start_time)>>, subject, teacher,
                    IF group = "" THEN <<>> ELSE <<group>>,
                    <<IF is_remote THEN "True" ELSE "False">>,
                    Join([i \in 1..Len(links) |-> <<links[i]>>], ",") >>, "-"))

CalculateHash(start_time, subject, teacher, room, group, is_remote, links) ==
    Md5Hex8(KeyData(start_time, subject, teacher, room, group, is_remote, links))

\* ScheduleEvent.__init__ on a data dict whose fields are all present
ScheduleEvent(data) ==
    LET subj == CleanSubject(data.subject, data.type, data.teacher)
    IN  [raw_subject |-> data.subject,
         teacher     |-> data.teacher,
         room        |-> data.room,
         event_type  |-> data.type,
         group       |-> data.group,
         is_remote   |-> data.is_remote,
         links       |-> data.links,
         start_time  |-> data.start_time,
         end_time    |-> data.end_time,
         subject     |-> subj,
         hash        |-> CalculateHash(data.start_time, subj, data.teacher, data.room,
                                       data.group, data.is_remote, data.links)]

\* variant: the end of the lesson is part of the key
GetUniqueKeyWithEnd(e) ==
    Join(<< <<StrfMinute(e.start_time)>>, <<StrfMinute(e.end_time)>>, e.subject,
            IF e.group = "" THEN <<>> ELSE <<e.group>> >>, "-")

GetUniqueKey(e) ==
    Join(<< <<StrfMinute(e.start_time)>>, e.subject,
            IF e.group = "" THEN <<>> ELSE <<e.group>> >>, "-")

\* the timestamps a fetch can produce: lessons start at minute 0 or 1 and
\* last one minute
StartTimes == {0, 1}
Times == 0..(MaxNow + 2)

\* what get_schedule_json hands to ScheduleEvent for one lesson of the feed
FeedRecord(start, room) ==
    [subject    |-> <<"Math", "(L)", room>>,
     type       |-> "L",
     teacher    |-> <<>>,
     room       |-> room,
     group      |-> "",
     is_remote  |-> FALSE,
     links      |-> <<>>,
     start_time |-> start,
     end_time   |-> start + 1]

Events == {ScheduleEvent(FeedRecord(s, r)) : s \in StartTimes, r \in RoomTokens}

\* events.sort(key=lambda x: x.start_time): fetched lists are ordered by start
IsSorted(l) == \A i \in 1..(Len(l) - 1) : l[i].start_time <= l[i + 1].start_time

ListsUpTo(evs, n) == {l \in UNION {[1..k -> evs] : k \in 0..n} : IsSorted(l)}

\* the lists update_and_detect_changes is exercised on
EventLists == ListsUpTo(Events, MaxEvents)

\* the lists the feed returns to the bot's handlers: the lessons of one room
FeedEvents == {e \in Events : e.room = "101.aud."}
FetchResults == ListsUpTo(FeedEvents, MaxFetch)

\* variant: the cleaned subject is written in place of the raw one
ToDictCleaned(e) ==
    [subject    |-> e.subject,
     teacher    |-> e.teacher,
     room       |-> e.room,
     type       |-> e.event_type,
     group      |-> e.group,
     is_remote  |-> e.is_remote,
     links      |-> e.links,
     start_time |-> IsoFormat(e.start_time),
     end_time   |-> IsoFormat(e.end_time)]

\* ScheduleEvent.to_dict / ScheduleEvent.from_dict
ToDict(e) ==
    [subject    |-> e.raw_subject,
     teacher    |-> e.teacher,
     room       |-> e.room,
     type       |-> e.event_type,
     group      |-> e.group,
     is_remote  |-> e.is_remote,
     links      |-> e.links,
     start_time |-> IsoFormat(e.start_time),
     end_time   |-> IsoFormat(e.end_time)]

FromIsoFormat(s) == CHOOSE t \in Times : IsoFormat(t) = s

FromDict(d) ==
    ScheduleEvent([d EXCEPT !.start_time = FromIsoFormat(d.start_time),
                            !.end_time   = FromIsoFormat(d.end_time)])

----------------------------------------------------------------------------
(* ScheduleCache *)

\* the cache file: whether it exists, whether its content is the complete
\* output of a json.dump, and the entities it holds
NoFile == [exists |-> FALSE, intact |-> TRUE, data |-> <<>>]

\* self._group_caches.get(group_id, [])
CacheGet(c, g) == IF g \in DOMAIN c THEN c[g] ELSE <<>>

\* variant: the dict is replaced by one that holds this group only
CachePutAlone(c, g, events) == [h \in {g} |-> events]

\* self._group_caches[group_id] = events
CachePut(c, g, events) ==
    [h \in (DOMAIN c) \cup {g} |-> IF h = g THEN events ELSE c[h]]

\* _save_cache: the file is rewritten from the whole in-memory cache.  A
\* failed write is logged and not raised: when open(..., 'w') fails the
\* file stays as it was, when json.dump fails after the open has truncated
\* the file, what is left is no complete JSON document
SaveCache(c, d, ok) ==
    CASE ok = "ok" ->
             [exists |-> TRUE, intact |-> TRUE,
              data   |-> [g \in DOMAIN c |-> [i \in 1..Len(c[g]) |-> ToDict(c[g][i])]]]
      [] ok = "open_fails"  -> d
      [] ok = "write_fails" -> [exists |-> TRUE, intact |-> FALSE, data |-> <<>>]

\* _load_cache of a file this program wrote
LoadCache(d) ==
    IF d.exists /\ d.intact
    THEN [g \in DOMAIN d.data |-> [i \in 1..Len(d.data[g]) |-> FromDict(d.data[g][i])]]
    ELSE <<>>

\* variant: a list of pairs in place of the dict, one entry per event
MapKeysAll(events) == [i \in 1..Len(events) |-> GetUniqueKey(events[i])]

\* {e.get_unique_key(): e for e in events}: the keys in order of first
\* occurrence, each mapped to the last event that carries it
RECURSIVE MapKeys(_)
MapKeys(events) ==
    IF events = <<>> THEN <<>>
    ELSE LET front == MapKeys(SubSeq(events, 1, Len(events) - 1))
             k     == GetUniqueKey(events[Len(events)])
         IN  IF \E i \in 1..Len(front) : front[i] = k THEN front ELSE Append(front, k)

HasKey(events, k) == \E i \in 1..Len(events) : GetUniqueKey(events[i]) = k

MapGet(events, k) ==
    events[CHOOSE i \in 1..Len(events) :
              /\ GetUniqueKey(events[i]) = k
              /\ \A j \in (i + 1)..Len(events) : GetUniqueKey(events[j]) # k]

NoEvent == <<>>     \* ScheduleChange.old_event = None

Change(kind, ev, old) == [change_type |-> kind, event |-> ev, old_event |-> old]

\* variants: a lesson ending at the evaluation time counts as ended; no lesson
\* ever counts as ended
EndedInclusive(ev, t) == ev.end_time <= t
EndedNever(ev, t) == FALSE

\* ev.end_time < now
Ended(ev, t) == ev.end_time < t

\* the first loop of update_and_detect_changes, over old_map.items()
RECURSIVE OldLoop(_, _, _, _)
OldLoop(keys, old_events, new_events, t) ==
    IF keys = <<>> THEN <<>>
    ELSE LET key  == Head(keys)
             ev   == MapGet(old_events, key)
             rest == OldLoop(Tail(keys), old_events, new_events, t)
         IN  IF ~HasKey(new_events, key)
             THEN IF Ended(ev, t) THEN rest
                  ELSE <<Change("removed", ev, NoEvent)>> \o rest
             ELSE IF ev.hash # MapGet(new_events, key).hash
                  THEN <<Change("modified", MapGet(new_events, key), ev)>> \o rest
                  ELSE rest

\* variant: the second loop without its check of the end time
RECURSIVE NewLoopNoEndCheck(_, _, _, _)
NewLoopNoEndCheck(keys, old_events, new_events, t) ==
    IF keys = <<>> THEN <<>>
    ELSE LET key  == Head(keys)
             ev   == MapGet(new_events, key)
             rest == NewLoopNoEndCheck(Tail(keys), old_events, new_events, t)
         IN  IF ~HasKey(old_events, key)
             THEN <<Change("added", ev, NoEvent)>> \o rest
             ELSE rest

\* the second loop, over new_map.items()
RECURSIVE NewLoop(_, _, _, _)
NewLoop(keys, old_events, new_events, t) ==
    IF keys = <<>> THEN <<>>
    ELSE LET key  == Head(keys)
             ev   == MapGet(new_events, key)
             rest == NewLoop(Tail(keys), old_events, new_events, t)
         IN  IF ~HasKey(old_events, key)
             THEN IF Ended(ev, t) THEN rest
                  ELSE <<Change("added", ev, NoEvent)>> \o rest
             ELSE rest

DetectChanges(old_events, new_events, t) ==
    OldLoop(MapKeys(old_events), old_events, new_events, t)
        \o NewLoop(MapKeys(new_events), old_events, new_events, t)

\* variant: no first-observation branch
FirstObservationNever(old_events, new_events) == FALSE

\* the condition of the first-observation branch
FirstObservation(old_events, new_events) == old_events = <<>> /\ new_events # <<>>

\* variant: the baseline is replaced only when changes were found
MustPersistChangesOnly(changes, old_events, new_events) == changes # <<>>

\* variant: the baseline is replaced only when the count differs
MustPersistCountOnly(changes, old_events, new_events) == Len(old_events) # Len(new_events)

\* the condition under which the baseline is replaced after the comparison
MustPersist(changes, old_events, new_events) ==
    changes # <<>> \/ Len(old_events) # Len(new_events)

\* variant: _save_cache without its handler
SaveCatchesNothing(exc) == FALSE

\* except Exception as e: logger.error(...) of _save_cache
SaveCatches(exc) == TRUE

\* whether a call of _save_cache with write outcome ok raises to its caller
SaveRaises(ok) == ok # "ok" /\ ~SaveCatches("OSError")

\* update_and_detect_changes(group_id, new_events) at time t, ok telling
\* how the write of the cache file goes; the result holds the returned
\* change list, the cache and file it leaves, and whether it raised
UpdateAndDetectChanges(c, d, g, new_events, t, ok) ==
    LET old_events == CacheGet(c, g)
    IN  IF FirstObservation(old_events, new_events)
        THEN [changes |-> <<>>,
              cache   |-> CachePut(c, g, new_events),
              disk    |-> SaveCache(CachePut(c, g, new_events), d, ok),
              raised  |-> SaveRaises(ok)]
        ELSE LET changes == DetectChanges(old_events, new_events, t)
             IN  IF MustPersist(changes, old_events, new_events)
                 THEN [changes |-> changes,
                       cache   |-> CachePut(c, g, new_events),
                       disk    |-> SaveCache(CachePut(c, g, new_events), d, ok),
                       raised  |-> SaveRaises(ok)]
                 ELSE [changes |-> changes, cache |-> c, disk |-> d, raised |-> FALSE]

----------------------------------------------------------------------------
(* UserManager *)

DefaultSettings == [group_id |-> NoGroup, change_notifications |-> FALSE]

\* update_user_group(chat_id, name, group_id)
UpdateUserGroup(us, c, g) == [us EXCEPT ![c].group_id = g]

\* update_user_setting(chat_id, 'change_notifications', value)
UpdateUserSetting(us, c, value) == [us EXCEPT ![c].change_notifications = value]

----------------------------------------------------------------------------
(* ScheduleBot._check_schedule_changes_job *)

\* active_groups: the group ids of the subscribed chats, in dict order
RECURSIVE ActiveGroupsOf(_, _)
ActiveGroupsOf(us, chats) ==
    IF chats = <<>> THEN <<>>
    ELSE LET front == ActiveGroupsOf(us, SubSeq(chats, 1, Len(chats) - 1))
             s     == us[chats[Len(chats)]]
         IN  IF s.group_id # NoGroup /\ s.change_notifications
                 /\ ~\E i \in 1..Len(front) : front[i] = s.group_id
             THEN Append(front, s.group_id)
             ELSE front

ActiveGroups(us) == ActiveGroupsOf(us, ChatOrder)

\* targets: the chats a report about group g goes to
Targets(us, g) ==
    SelectSeq(ChatOrder, LAMBDA c : us[c].group_id = g /\ us[c].change_notifications)

\* an invocation is idle or suspended in the await of a send; queue holds the
\* groups still to be processed, targets the chats the report about group_id
\* still has to go to
IdleJob == [pc |-> "idle", queue |-> <<>>, group_id |-> NoGroup, targets |-> <<>>]

\* variant: the guard never blocks
GuardNeverBlocks(flag) == FALSE

\* if self._schedule_check_running: return
GuardBlocks(flag) == flag

\* variant: an empty fetch is never skipped
SkipsNothing(c, g, new_events) == FALSE

\* if not new_events: old_events = ...; if old_events: continue
SkipsEmptyFetch(c, g, new_events) == new_events = <<>> /\ CacheGet(c, g) # <<>>

\* one entry of the history: the fetch for group g returned new_events, and
\* update_and_detect_changes was then called with it or not
Visit(caller, g, new_events, called) ==
    [caller |-> caller, group_id |-> g, new_events |-> new_events, called |-> called]

\* the body of "for group_id, group_name in active_groups.items()" from the
\* head of queue up to the next await (the send of a report) or the end of
\* the loop; fetch and ok give the outcome of each group's fetch and write
Range(q) == {q[i] : i \in 1..Len(q)}

RECURSIVE RunLoop(_, _, _, _, _, _, _, _)
RunLoop(queue, c, d, us, t, fetch, ok, visits) ==
    IF queue = <<>>
    THEN [job |-> IdleJob, cache |-> c, disk |-> d, visits |-> visits]
    ELSE LET g          == Head(queue)
             new_events == fetch[g]
         IN  IF SkipsEmptyFetch(c, g, new_events)
             THEN RunLoop(Tail(queue), c, d, us, t, fetch, ok,
                          Append(visits, Visit("job", g, new_events, FALSE)))
             ELSE LET r       == UpdateAndDetectChanges(c, d, g, new_events, t, ok[g])
                      targets == IF r.changes # <<>> THEN Targets(us, g) ELSE <<>>
                      seen    == Append(visits, Visit("job", g, new_events, TRUE))
                  IN  IF targets # <<>>
                      THEN [job |-> [pc |-> "send", queue |-> Tail(queue), group_id |-> g,
                                     targets |-> targets],
                            cache |-> r.cache, disk |-> r.disk, visits |-> seen]
                      ELSE RunLoop(Tail(queue), r.cache, r.disk, us, t, fetch, ok, seen)

WriteOutcomes == IF ioFaults THEN {"ok", "open_fails", "write_fails"} ELSE {"ok"}

Step(op, visits) == [op |-> op, visits |-> visits]

\* an invocation of the job: the guard, then the loop up to its first await
JobStart(j) ==
    /\ job[j].pc = "idle"
    /\ IF GuardBlocks(running)
       THEN /\ log' = Step("job_start", <<>>)
            /\ UNCHANGED <<cache, disk, now, users, running, job, ioFaults, ret, arg, res>>
       ELSE \E fetch \in [Range(ActiveGroups(users)) -> FetchResults],
               ok \in [Range(ActiveGroups(users)) -> WriteOutcomes] :
              LET r == RunLoop(ActiveGroups(users), cache, disk, users, now, fetch, ok, <<>>)
              IN  /\ cache' = r.cache
                  /\ disk' = r.disk
                  /\ job' = [job EXCEPT ![j] = r.job]
                  /\ running' = (r.job.pc # "idle")
                  /\ log' = Step("job_start", r.visits)
                  /\ UNCHANGED <<now, users, ioFaults, ret, arg, res>>

\* the awaited send_message (and pin) for the first pending target returns,
\* and the job goes on to its next await or to its end
JobResume(j) ==
    /\ job[j].pc = "send"
    /\ IF Len(job[j].targets) > 1
       THEN /\ job' = [job EXCEPT ![j].targets = Tail(job[j].targets)]
            /\ log' = Step("job_resume", <<>>)
            /\ UNCHANGED <<cache, disk, now, users, running, ioFaults, ret, arg, res>>
       ELSE \E fetch \in [Range(job[j].queue) -> FetchResults],
               ok \in [Range(job[j].queue) -> WriteOutcomes] :
              LET r == RunLoop(job[j].queue, cache, disk, users, now, fetch, ok, <<>>)
              IN  /\ cache' = r.cache
                  /\ disk' = r.disk
                  /\ job' = [job EXCEPT ![j] = r.job]
                  /\ running' = (r.job.pc # "idle")
                  /\ log' = Step("job_resume", r.visits)
                  /\ UNCHANGED <<now, users, ioFaults, ret, arg, res>>

----------------------------------------------------------------------------
(* Command handlers *)

\* group_command: /group <name> in chat c; is_admin is the outcome of
\* _is_user_admin, has_args tells whether a name was given, gid is what
\* get_group_id returns (NoGroup for None), events what get_schedule returns
GroupCommand(c) ==
    \E is_admin \in BOOLEAN, has_args \in BOOLEAN :
      IF is_admin /\ has_args
      THEN \E gid \in Groups \cup {NoGroup} :
             IF gid # NoGroup
             THEN \E events \in FetchResults, ok \in WriteOutcomes :
                    LET r == UpdateAndDetectChanges(cache, disk, gid, events, now, ok)
                    IN  /\ users' = UpdateUserGroup(users, c, gid)
                        /\ cache' = r.cache
                        /\ disk' = r.disk
                        /\ log' = Step("group", <<Visit("group", gid, events, TRUE)>>)
                        /\ UNCHANGED <<now, running, job, ioFaults, ret, arg, res>>
             ELSE /\ log' = Step("group", <<>>)
                  /\ UNCHANGED <<cache, disk, now, users, running, job, ioFaults, ret, arg, res>>
      ELSE /\ log' = Step("group", <<>>)
           /\ UNCHANGED <<cache, disk, now, users, running, job, ioFaults, ret, arg, res>>

\* button_callback with data "toggle_changes" in chat c
ToggleChanges(c) ==
    \E is_admin \in BOOLEAN :
      /\ log' = Step("toggle", <<>>)
      /\ users' = IF is_admin
                  THEN UpdateUserSetting(users, c, ~users[c].change_notifications)
                  ELSE users
      /\ UNCHANGED <<cache, disk, now, running, job, ioFaults, ret, arg, res>>

\* time passes
Tick ==
    /\ now < MaxNow
    /\ now' = now + 1
    /\ log' = Step("tick", <<>>)
    /\ UNCHANGED <<cache, disk, users, running, job, ioFaults, ret, arg, res>>

----------------------------------------------------------------------------
NoCall == [called |-> FALSE]
NoArg == <<>>
NoResult == [done |-> FALSE]

(* The bot: a fresh installation in which the chats have registered *)

Init ==
    /\ cache = <<>>
    /\ disk = NoFile
    /\ now = 1
    /\ users = [c \in Chats |-> DefaultSettings]
    /\ running = FALSE
    /\ job = [j \in Jobs |-> IdleJob]
    /\ ioFaults = FALSE
    /\ log = Step("init", <<>>)
    /\ ret = NoCall
    /\ arg = NoArg
    /\ res = NoResult

Next ==
    \/ \E j \in Jobs : JobStart(j)
    \/ \E j \in Jobs : JobResume(j)
    \/ \E c \in Chats : GroupCommand(c)
    \/ \E c \in Chats : ToggleChanges(c)
    \/ Tick

Spec == Init /\ [][Next]_vars

----------------------------------------------------------------------------
(* The cache on its own: update_and_detect_changes applied to every group *)
(* and every fetched list, at every time                                   *)

CallUpdate(g, new_events) ==
    LET r == UpdateAndDetectChanges(cache, disk, g, new_events, now, "ok")
    IN  /\ cache' = r.cache
        /\ disk' = r.disk
        /\ log' = Step("update", <<Visit("direct", g, new_events, TRUE)>>)
        /\ ret' = [called |-> TRUE, group_id |-> g, old_events |-> CacheGet(cache, g),
                   new_events |-> new_events, at |-> now, changes |-> r.changes]
        /\ UNCHANGED <<now, users, running, job, ioFaults, arg, res>>

DirectGroups == {"g1"}

NextCache ==
    \/ \E g \in DirectGroups, new_events \in EventLists : CallUpdate(g, new_events)
    \/ Tick

SpecCache == Init /\ [][NextCache]_vars

----------------------------------------------------------------------------
(* Properties of update_and_detect_changes, checked under SpecCache *)

KeysOf(events) == {GetUniqueKey(events[i]) : i \in 1..Len(events)}

\* the positions of the change records about the lesson slot k
ChangesFor(changes, k) ==
    {i \in 1..Len(changes) : GetUniqueKey(changes[i].event) = k}

\* C1: a call with a non-empty list for a group that has no baseline returns
\* no changes and leaves the list as the baseline, in memory and in the file
FirstObservationHasNoChanges ==
    (ret.called /\ ret.old_events = <<>> /\ ret.new_events # <<>>)
        => /\ ret.changes = <<>>
           /\ CacheGet(cache, ret.group_id) = ret.new_events
           /\ disk.exists
           /\ CacheGet(LoadCache(disk), ret.group_id) = ret.new_events

FirstObservationWitness ==
    /\ ret.called
    /\ ret.old_events = <<>>
    /\ Len(ret.new_events) = 2
    /\ ret.new_events[2].end_time >= ret.at
    /\ ret.changes = <<>>
    /\ CacheGet(cache, ret.group_id) = ret.new_events

\* C6: a slot present only in the baseline whose lesson has not ended before
\* the evaluation time is reported by exactly one Removed change carrying the
\* old event; baseline [e1] not yet ended against [] gives [Removed(e1)]
RemovedReported ==
    ret.called =>
        /\ \A k \in KeysOf(ret.old_events) \ KeysOf(ret.new_events) :
             LET ev == MapGet(ret.old_events, k)
             IN  ev.end_time >= ret.at =>
                   \E i \in 1..Len(ret.changes) :
                      /\ ret.changes[i] = Change("removed", ev, NoEvent)
                      /\ ChangesFor(ret.changes, k) = {i}
        /\ (Len(ret.old_events) = 1 /\ ret.new_events = <<>>
              /\ ret.old_events[1].end_time > ret.at)
             => ret.changes = <<Change("removed", ret.old_events[1], NoEvent)>>

RemovedReportedWitness ==
    /\ ret.called
    /\ Len(ret.old_events) = 1
    /\ ret.new_events = <<>>
    /\ ret.old_events[1].end_time > ret.at
    /\ ret.changes = <<Change("removed", ret.old_events[1], NoEvent)>>

\* C7: no Removed change carries a lesson that ended before the evaluation
\* time; baseline [e1] already ended against [] gives no changes
NoRemovedForEnded ==
    ret.called =>
        /\ \A i \in 1..Len(ret.changes) :
             ret.changes[i].change_type = "removed"
                => ~(ret.changes[i].event.end_time < ret.at)
        /\ (Len(ret.old_events) = 1 /\ ret.new_events = <<>>
              /\ ret.old_events[1].end_time < ret.at)
             => ret.changes = <<>>

NoRemovedForEndedWitness ==
    /\ ret.called
    /\ Len(ret.old_events) = 1
    /\ ret.new_events = <<>>
    /\ ret.old_events[1].end_time < ret.at
    /\ ret.changes = <<>>

\* C8: with a baseline, a slot present only in the new list is reported by
\* exactly one Added change carrying the new event when its lesson has not
\* ended, and by nothing when it has; baseline [e1] against [e1, e2] with e2
\* a new slot not yet ended gives [Added(e2)]
AddedReported ==
    (ret.called /\ ret.old_events # <<>>) =>
        /\ \A k \in KeysOf(ret.new_events) \ KeysOf(ret.old_events) :
             LET ev == MapGet(ret.new_events, k)
             IN  IF ev.end_time < ret.at
                 THEN ChangesFor(ret.changes, k) = {}
                 ELSE \E i \in 1..Len(ret.changes) :
                        /\ ret.changes[i] = Change("added", ev, NoEvent)
                        /\ ChangesFor(ret.changes, k) = {i}
        /\ (Len(ret.old_events) = 1 /\ Len(ret.new_events) = 2) =>
             \A p \in 1..2 :
                (/\ ret.new_events[p] = ret.old_events[1]
                 /\ GetUniqueKey(ret.new_events[3 - p]) # GetUniqueKey(ret.old_events[1])
                 /\ ret.new_events[3 - p].end_time >= ret.at)
                  => ret.changes = <<Change("added", ret.new_events[3 - p], NoEvent)>>

AddedReportedWitness ==
    /\ ret.called
    /\ Len(ret.old_events) = 1
    /\ Len(ret.new_events) = 2
    /\ ret.new_events[1] = ret.old_events[1]
    /\ GetUniqueKey(ret.new_events[2]) # GetUniqueKey(ret.old_events[1])
    /\ ret.changes = <<Change("added", ret.new_events[2], NoEvent)>>

\* a new slot whose lesson has already ended is passed over
AddedSuppressedWitness ==
    /\ ret.called
    /\ ret.old_events # <<>>
    /\ \E k \in KeysOf(ret.new_events) \ KeysOf(ret.old_events) :
           MapGet(ret.new_events, k).end_time < ret.at
    /\ ret.changes = <<>>

\* C9: a slot present in both lists is reported by a Modified change carrying
\* (new event, old event) exactly when the fingerprints of its two events
\* differ; baseline [e1] against [e1'] with the same slot and another room
\* gives [Modified(e1', e1)]
ModifiedReported ==
    ret.called =>
        /\ \A k \in KeysOf(ret.old_events) \cap KeysOf(ret.new_events) :
             LET old == MapGet(ret.old_events, k)
                 new == MapGet(ret.new_events, k)
             IN  IF old.hash = new.hash
                 THEN ChangesFor(ret.changes, k) = {}
                 ELSE \E i \in 1..Len(ret.changes) :
                        /\ ret.changes[i] = Change("modified", new, old)
                        /\ ChangesFor(ret.changes, k) = {i}
        /\ (/\ Len(ret.old_events) = 1 /\ Len(ret.new_events) = 1
            /\ GetUniqueKey(ret.old_events[1]) = GetUniqueKey(ret.new_events[1])
            /\ ret.old_events[1].room # ret.new_events[1].room)
             => ret.changes = <<Change("modified", ret.new_events[1], ret.old_events[1])>>

ModifiedReportedWitness ==
    /\ ret.called
    /\ Len(ret.old_events) = 1 /\ Len(ret.new_events) = 1
    /\ GetUniqueKey(ret.old_events[1]) = GetUniqueKey(ret.new_events[1])
    /\ ret.old_events[1].room # ret.new_events[1].room
    /\ ret.changes = <<Change("modified", ret.new_events[1], ret.old_events[1])>>

\* C10: with a baseline, the call replaces the baseline by new_events, in
\* memory and in the file, if and only if it returns changes or the two lists
\* differ in length; otherwise cache and file stay exactly as they were
PersistIffChangedOrCountDiffers ==
    [][(log'.op = "update" /\ ret'.called /\ ret'.old_events # <<>>) =>
          IF ret'.changes # <<>> \/ Len(ret'.old_events) # Len(ret'.new_events)
          THEN /\ CacheGet(cache', ret'.group_id) = ret'.new_events
               /\ disk'.exists
               /\ CacheGet(LoadCache(disk'), ret'.group_id) = ret'.new_events
          ELSE /\ cache' = cache
               /\ disk' = disk]_vars

\* a call that found nothing and kept a baseline that differs from new_events
BaselineKeptWitness ==
    /\ ret.called
    /\ ret.old_events # <<>>
    /\ ret.changes = <<>>
    /\ Len(ret.old_events) = Len(ret.new_events)
    /\ ret.old_events # ret.new_events
    /\ CacheGet(cache, ret.group_id) = ret.old_events

----------------------------------------------------------------------------
(* Properties of the bot, checked under Spec *)

\* C2: a group whose baseline is non-empty keeps a non-empty baseline in
\* every step
BaselineNeverLost ==
    [][\A g \in Groups : CacheGet(cache, g) # <<>> => CacheGet(cache', g) # <<>>]_vars

\* C3: when the job's fetch for a group with a baseline returns an empty
\* list, the job does not call update_and_detect_changes for it, the group's
\* baseline in memory and in the file stays as it was, and no report about
\* the group is queued for sending
JobSkipsEmptyFetch ==
    [][\A i \in 1..Len(log'.visits) :
          LET v == log'.visits[i]
              g == v.group_id
          IN  (v.caller = "job" /\ v.new_events = <<>> /\ CacheGet(cache, g) # <<>>)
                => /\ ~v.called
                   /\ CacheGet(cache', g) = CacheGet(cache, g)
                   /\ disk'.exists /\ disk.exists
                   /\ CacheGet(disk'.data, g) = CacheGet(disk.data, g)
                   /\ \A j \in Jobs : ~(job'[j].pc = "send" /\ job'[j].group_id = g)]_vars

JobSkipsEmptyFetchWitness ==
    \E i \in 1..Len(log.visits) :
       /\ log.visits[i].caller = "job"
       /\ log.visits[i].new_events = <<>>
       /\ ~log.visits[i].called
       /\ CacheGet(cache, log.visits[i].group_id) # <<>>

\* C4: update_and_detect_changes is never called with an empty list for a
\* group whose baseline is non-empty
NoEmptyUpdateOverBaseline ==
    [][\A i \in 1..Len(log'.visits) :
          (log'.visits[i].called /\ log'.visits[i].new_events = <<>>)
             => CacheGet(cache, log'.visits[i].group_id) = <<>>]_vars

\* C5: at most one invocation of the job is past the guard, and an invocation
\* started while another one is past the guard fetches nothing and leaves
\* cache, file and the running invocation as they are
JobNonReentrant ==
    [][/\ Cardinality({j \in Jobs : job'[j].pc # "idle"}) <= 1
       /\ (log'.op = "job_start" /\ \E j \in Jobs : job[j].pc # "idle")
            => /\ log'.visits = <<>>
               /\ cache' = cache
               /\ disk' = disk
               /\ job' = job
               /\ running']_vars

JobNonReentrantWitness ==
    /\ log.op = "job_start"
    /\ log.visits = <<>>
    /\ running
    /\ \E j \in Jobs : job[j].pc = "send"

----------------------------------------------------------------------------
(* NungParser.get_schedule_json *)

MaxItems == 2       \* most raw records in one upstream response

\* item.get('date'): None when the key is absent, else a string that is or
\* is not a date of the form %d.%m.%Y
DateValues == {"None", "31.02.2026", "03.11.2026"}

\* the clock strings %H:%M accepts, and the minute each one denotes
ClockTokens == {"00:00", "00:01", "00:02"}
ClockMinute(tok) ==
    CASE tok = "00:00" -> 0
      [] tok = "00:01" -> 1
      [] tok = "00:02" -> 2

\* item.get('lesson_time', ''): the empty string when the key is absent, a
\* single clock, a dashed pair that is no pair of clocks, or a time range
LessonTimeValues ==
    {<<>>, <<"00:00">>, <<"aa", "-", "bb">>,
     <<"00:00", "-", "00:01">>, <<"00:01", "-", "00:02">>}

RawItems ==
    [lesson_description : {<<"Math", "(L)", r>> : r \in RoomTokens},
     date               : DateValues,
     lesson_time        : LessonTimeValues]

\* what the upstream does for one request: requests.get or response.json()
\* or the lookup of the export root raises exc, or the export holds items
UpstreamFailures == {"ConnectionError", "Timeout", "JSONDecodeError", "AttributeError"}

ItemLists == UNION {[1..k -> RawItems] : k \in 0..MaxItems}

Responses ==
    {[exc |-> e, items |-> <<>>] : e \in UpstreamFailures}
        \cup {[exc |-> "none", items |-> l] : l \in ItemLists}

RECURSIVE SplitOn(_, _)
\* str.split(sep): the parts between the separators, one more than separators
SplitOn(text, sep) ==
    IF \A i \in 1..Len(text) : text[i] # sep THEN <<text>>
    ELSE LET i == CHOOSE k \in 1..Len(text) :
                      text[k] = sep /\ \A m \in 1..(k - 1) : text[m] # sep
         IN  <<SubSeq(text, 1, i - 1)>> \o SplitOn(SubSeq(text, i + 1, Len(text)), sep)

\* datetime.strptime(date_str, '%d.%m.%Y'): the exception it raises, if any
StrptimeDate(date_str) ==
    CASE date_str = "None"       -> "TypeError"
      [] date_str = "03.11.2026" -> "none"
      [] OTHER                   -> "ValueError"

\* datetime.strptime(part.strip(), '%H:%M')
StrptimeClock(part) ==
    IF Len(part) = 1 /\ part[1] \in ClockTokens THEN "none" ELSE "ValueError"

\* the first exception raised inside the inner try block, in statement order
ParseTimes(date_str, time_range) ==
    IF StrptimeDate(date_str) # "none" THEN StrptimeDate(date_str)
    ELSE IF StrptimeClock(time_range[1]) # "none" THEN StrptimeClock(time_range[1])
    ELSE StrptimeClock(time_range[2])

\* except ValueError: continue
InnerCatches(exc) == exc = "ValueError"

\* variant: the outer handler catches the parse errors only
OuterCatchesValueErrorOnly(exc) == exc \in {"ValueError", "JSONDecodeError"}

\* except Exception as e: ... return []
OuterCatches(exc) == TRUE

\* the event_data built for one description of one record
EventData(item, description, start_dt, end_dt) ==
    LET rooms == SelectSeq(description, LAMBDA tok : tok \in RoomTokens)
        types == SelectSeq(description, LAMBDA tok : tok \in {"(L)", "(Pr)"})
    IN  [subject    |-> SelectSeq(description, LAMBDA tok : tok # "*"),
         type       |-> IF types = <<>> THEN ""
                        ELSE IF Head(types) = "(L)" THEN "L" ELSE "Pr",
         teacher    |-> <<>>,
         room       |-> IF rooms = <<>> THEN "" ELSE Head(rooms),
         group      |-> "",
         is_remote  |-> FALSE,
         links      |-> <<>>,
         start_time |-> start_dt,
         end_time   |-> end_dt]

\* the body of "for item in items" for one record: the events it appends, or
\* the exception that leaves the loop
ParseItem(item) ==
    LET time_range == SplitOn(item.lesson_time, "-")
    IN  IF Len(time_range) # 2 THEN [exc |-> "none", events |-> <<>>]
        ELSE LET exc == ParseTimes(item.date, time_range)
             IN  IF exc = "none"
                 THEN [exc |-> "none",
                       events |-> <<ScheduleEvent(EventData(item, item.lesson_description,
                                        ClockMinute(time_range[1][1]),
                                        ClockMinute(time_range[2][1])))>>]
                 ELSE IF InnerCatches(exc) THEN [exc |-> "none", events |-> <<>>]
                 ELSE [exc |-> exc, events |-> <<>>]

RECURSIVE ItemsLoop(_, _)
ItemsLoop(items, events) ==
    IF items = <<>> THEN [exc |-> "none", events |-> events]
    ELSE LET r == ParseItem(Head(items))
         IN  IF r.exc # "none" THEN [exc |-> r.exc, events |-> events]
             ELSE ItemsLoop(Tail(items), events \o r.events)

\* variant: an event moves ahead of the earlier events that start with it
StaysAheadStrict(x, e) == x.start_time < e.start_time

\* list.sort(key=lambda x: x.start_time) is stable: an event x that was
\* appended before e stays ahead of e unless e starts strictly earlier
StaysAhead(x, e) == x.start_time <= e.start_time

RECURSIVE InsertByStart(_, _)
InsertByStart(sorted, e) ==
    IF sorted = <<>> THEN <<e>>
    ELSE IF StaysAhead(Head(sorted), e)
         THEN <<Head(sorted)>> \o InsertByStart(Tail(sorted), e)
         ELSE <<e>> \o sorted

RECURSIVE SortByStart(_)
SortByStart(events) ==
    IF events = <<>> THEN <<>>
    ELSE InsertByStart(SortByStart(SubSeq(events, 1, Len(events) - 1)),
                       events[Len(events)])

\* the outcome of one call: the list returned, or the exception raised to
\* the caller
GetScheduleJson(response) ==
    LET body == IF response.exc # "none"
                THEN [exc |-> response.exc, events |-> <<>>]
                ELSE ItemsLoop(response.items, <<>>)
    IN  IF body.exc = "none"
        THEN [raised |-> "none", events |-> SortByStart(body.events)]
        ELSE IF OuterCatches(body.exc)
             THEN [raised |-> "none", events |-> <<>>]
             ELSE [raised |-> body.exc, events |-> <<>>]

\* NungParser.get_schedule with an empty links map: the same outcome
GetSchedule(response) == GetScheduleJson(response)

(* The fetcher on its own: one call for each upstream response *)

InitFetch ==
    /\ cache = <<>>
    /\ disk = NoFile
    /\ now = 1
    /\ users = [c \in Chats |-> DefaultSettings]
    /\ running = FALSE
    /\ job = [j \in Jobs |-> IdleJob]
    /\ ioFaults = FALSE
    /\ log = Step("init", <<>>)
    /\ ret = NoCall
    /\ arg \in Responses
    /\ res = NoResult

Fetch ==
    /\ ~res.done
    /\ res' = [done |-> TRUE, value |-> GetSchedule(arg)]
    /\ log' = Step("fetch", <<>>)
    /\ UNCHANGED <<cache, disk, now, users, running, job, ioFaults, ret, arg>>

NextFetch == Fetch

SpecFetch == InitFetch /\ [][NextFetch]_vars

----------------------------------------------------------------------------
(* Properties of the fetcher, checked under SpecFetch *)

\* the upstream request or the decoding of the whole response failed
FetchFailed(response) == response.exc # "none"

\* the upstream answered with an export that holds no records
FetchedNothing(response) == response.exc = "none" /\ response.items = <<>>

\* C11: the value returned for a fetch that failed differs from the value
\* returned for every fetch that succeeded with zero records
FailureDistinguishable ==
    (res.done /\ FetchFailed(arg))
        => \A r \in Responses : FetchedNothing(r) => GetSchedule(r) # res.value

\* a raw record whose date and time range are both present and well formed
WellFormed(item) ==
    /\ item.date = "03.11.2026"
    /\ item.lesson_time \in {<<"00:00", "-", "00:01">>, <<"00:01", "-", "00:02">>}

\* the event a well-formed record of the feed stands for
EventOf(item) ==
    ScheduleEvent(FeedRecord(ClockMinute(item.lesson_time[1]), item.lesson_description[3]))

\* the events of the well-formed records, in the order of the response
RECURSIVE EventsInInputOrder(_)
EventsInInputOrder(items) ==
    IF items = <<>> THEN <<>>
    ELSE (IF WellFormed(Head(items)) THEN <<EventOf(Head(items))>> ELSE <<>>)
             \o EventsInInputOrder(Tail(items))

\* C14: when the upstream request or the decoding of the whole response
\* fails, the fetcher returns the empty list and raises nothing to its caller
FailureReturnsEmpty ==
    (res.done /\ FetchFailed(arg))
        => /\ res.value.raised = "none"
           /\ res.value.events = <<>>

FailureReturnsEmptyWitness ==
    /\ res.done
    /\ arg.exc = "Timeout"
    /\ res.value = [raised |-> "none", events |-> <<>>]

\* C15: in a fetch whose request and decoding succeeded, the records whose
\* date or time range is absent or malformed are skipped and every other
\* record of the response is returned as an event
MalformedRecordsSkipped ==
    (res.done /\ ~FetchFailed(arg))
        => /\ res.value.raised = "none"
           /\ Len(res.value.events) = Len(EventsInInputOrder(arg.items))
           /\ \A i \in 1..Len(arg.items) :
                  WellFormed(arg.items[i])
                      => \E k \in 1..Len(res.value.events) :
                             res.value.events[k] = EventOf(arg.items[i])

SortedReorderedWitness ==
    /\ res.done
    /\ Len(res.value.events) = 2
    /\ EventsInInputOrder(arg.items) = <<res.value.events[2], res.value.events[1]>>
    /\ res.value.events[1].start_time < res.value.events[2].start_time

----------------------------------------------------------------------------
(* The event loop: the detection job with its upstream fetch as a step of  *)
(* its own.  NungParser.get_schedule calls requests.get, a synchronous     *)
(* call, from inside the coroutine, so the loop's only thread stays in     *)
(* that call until the response has arrived                                *)

\* some invocation of the job is inside get_schedule
LoopBusy == \E j \in Jobs : job[j].pc = "fetch"

\* the job's position when it goes on to the groups in queue
NextFetchOrIdle(queue) ==
    IF queue = <<>> THEN IdleJob
    ELSE [pc |-> "fetch", queue |-> queue, group_id |-> NoGroup, targets |-> <<>>]

\* an invocation of the job: the guard, the flag, the active groups, and the
\* request for the first of them goes out
LoopJobStart(j) ==
    /\ ~LoopBusy
    /\ job[j].pc = "idle"
    /\ log' = Step("job_start", <<>>)
    /\ IF GuardBlocks(running)
       THEN UNCHANGED <<cache, disk, now, users, running, job, ioFaults, ret, arg, res>>
       ELSE /\ job' = [job EXCEPT ![j] = NextFetchOrIdle(ActiveGroups(users))]
            /\ running' = (ActiveGroups(users) # <<>>)
            /\ UNCHANGED <<cache, disk, now, users, ioFaults, ret, arg, res>>

\* get_schedule returns for the group at the head of the queue; the job
\* handles the result and reaches a send, the next request, or its end
LoopFetchReturns(j) ==
    /\ job[j].pc = "fetch"
    /\ \E new_events \in FetchResults, ok \in WriteOutcomes :
         LET g == Head(job[j].queue)
             r == RunLoop(<<g>>, cache, disk, users, now,
                          [x \in {g} |-> new_events], [x \in {g} |-> ok], <<>>)
             after == IF r.job.pc = "send"
                      THEN [r.job EXCEPT !.queue = Tail(job[j].queue)]
                      ELSE NextFetchOrIdle(Tail(job[j].queue))
         IN  /\ cache' = r.cache
             /\ disk' = r.disk
             /\ job' = [job EXCEPT ![j] = after]
             /\ running' = (after.pc # "idle")
             /\ log' = Step("job_fetch", r.visits)
             /\ UNCHANGED <<now, users, ioFaults, ret, arg, res>>

\* the awaited send for the first pending target returns
LoopJobResume(j) ==
    /\ ~LoopBusy
    /\ job[j].pc = "send"
    /\ log' = Step("job_resume", <<>>)
    /\ LET after == IF Len(job[j].targets) > 1
                    THEN [job[j] EXCEPT !.targets = Tail(job[j].targets)]
                    ELSE NextFetchOrIdle(job[j].queue)
       IN  /\ job' = [job EXCEPT ![j] = after]
           /\ running' = (after.pc # "idle")
    /\ UNCHANGED <<cache, disk, now, users, ioFaults, ret, arg, res>>

\* a handler is entered only when the loop's thread is free
LoopGroupCommand(c) == ~LoopBusy /\ GroupCommand(c)
LoopToggleChanges(c) == ~LoopBusy /\ ToggleChanges(c)

NextLoop ==
    \/ \E j \in Jobs : LoopJobStart(j)
    \/ \E j \in Jobs : LoopFetchReturns(j)
    \/ \E j \in Jobs : LoopJobResume(j)
    \/ \E c \in Chats : LoopGroupCommand(c)
    \/ \E c \in Chats : LoopToggleChanges(c)
    \/ Tick

SpecLoop == Init /\ [][NextLoop]_vars

----------------------------------------------------------------------------
(* Properties of the handlers' interleaving *)

\* C12: while a run of the detection job waits for an upstream fetch, a
\* command can be handled: some command handler is able to take its step
CommandsHandledDuringFetch ==
    LoopBusy => ENABLED (\E c \in Chats : LoopGroupCommand(c) \/ LoopToggleChanges(c))

\* C13: a command handler changes the settings of one chat at most, and
\* while a run of the detection job holds the run-in-progress flag no
\* handler writes the schedule cache or its file
NoHandlerWriteDuringRun ==
    [][log'.op \in {"group", "toggle"}
           => /\ Cardinality({c \in Chats : users'[c] # users[c]}) <= 1
              /\ running => (cache' = cache /\ disk' = disk)]_vars

----------------------------------------------------------------------------
(* ScheduleEvent on its own *)

DataFields ==
    {"subject", "type", "teacher", "room", "group", "is_remote", "links",
     "start_time", "end_time"}

\* data.get(field, default) of __init__, the defaults evaluated at time t
DataGet(data, field, t) ==
    IF field \in DOMAIN data THEN data[field]
    ELSE CASE field = "subject"   -> <<"Nevidomyy", "predmet">>
           [] field = "teacher"   -> <<>>
           [] field = "is_remote" -> FALSE
           [] field = "links"     -> <<>>
           [] field \in {"start_time", "end_time"} -> t
           [] OTHER               -> ""

\* ScheduleEvent.__init__ at time t on a data dict that may lack fields
ScheduleEventAt(data, t) == ScheduleEvent([f \in DataFields |-> DataGet(data, f, t)])

\* the event_data dicts the fetcher can build for the lesson that starts at
\* minute 1: a subject with its type code, with or without a teacher, a
\* subgroup, the remote flag and a link
EventRecords ==
    {[subject    |-> <<name, "(" \o type \o ")">>,
      type       |-> type,
      teacher    |-> teacher,
      room       |-> room,
      group      |-> group,
      is_remote  |-> is_remote,
      links      |-> links,
      start_time |-> 1,
      end_time   |-> end] :
        name \in {"Math", "Physics"}, type \in {"L", "Pr"},
        teacher \in {<<>>, <<"dotsent", "Ivanenko", "Ivan">>},
        room \in RoomTokens, group \in {"", "(pidgr. 1)"},
        is_remote \in BOOLEAN, links \in {<<>>, <<"zoom.us/1">>},
        end \in {2, 3}}

\* the dicts __init__ is studied on: records of the feed with none, one or
\* all of the fields taken away
BaseRecords == {d \in EventRecords : d.subject[1] = "Math" /\ d.room = "101.aud." /\ d.end_time = 2}

Without(data, missing) == [f \in DataFields \ missing |-> data[f]]

MissingSets == {{}} \cup {{f} : f \in DataFields} \cup {DataFields \ {"start_time"}, DataFields}

PartialRecords == {Without(d, m) : d \in BaseRecords, m \in MissingSets}

(* One raw record normalized at up to two moments, and the first event    *)
(* written with to_dict / _save_cache and read back                       *)

NotBuilt == [built |-> <<>>, reloaded |-> <<>>, cache_reloaded |-> <<>>]

InitEvent ==
    /\ cache = <<>>
    /\ disk = NoFile
    /\ now = 1
    /\ users = [c \in Chats |-> DefaultSettings]
    /\ running = FALSE
    /\ job = [j \in Jobs |-> IdleJob]
    /\ ioFaults = FALSE
    /\ log = Step("init", <<>>)
    /\ ret = NoCall
    /\ arg \in PartialRecords
    /\ res = NotBuilt

\* ScheduleEvent(arg) at the current time
Construct ==
    /\ Len(res.built) < 2
    /\ res' = [res EXCEPT !.built = Append(@, [at |-> now, event |-> ScheduleEventAt(arg, now)])]
    /\ log' = Step("construct", <<>>)
    /\ UNCHANGED <<cache, disk, now, users, running, job, ioFaults, ret, arg>>

\* from_dict(to_dict(e)) for the first event built, and _load_cache of the
\* file _save_cache writes for a cache that holds the events built
Reload ==
    /\ res.built # <<>>
    /\ res.reloaded = <<>>
    /\ LET events == [i \in 1..Len(res.built) |-> res.built[i].event]
           c      == CachePut(<<>>, "g1", events)
       IN  /\ res' = [res EXCEPT !.reloaded = <<FromDict(ToDict(events[1]))>>,
                                 !.cache_reloaded = <<c, LoadCache(SaveCache(c, NoFile, "ok"))>>]
    /\ log' = Step("reload", <<>>)
    /\ UNCHANGED <<cache, disk, now, users, running, job, ioFaults, ret, arg>>

NextEvent ==
    \/ Construct
    \/ Reload
    \/ Tick

SpecEvent == InitEvent /\ [][NextEvent]_vars

(* Two records of the feed normalized side by side *)

InitPair ==
    /\ cache = <<>>
    /\ disk = NoFile
    /\ now = 1
    /\ users = [c \in Chats |-> DefaultSettings]
    /\ running = FALSE
    /\ job = [j \in Jobs |-> IdleJob]
    /\ ioFaults = FALSE
    /\ log = Step("init", <<>>)
    /\ ret = NoCall
    /\ arg \in EventRecords \X EventRecords
    /\ res = NoResult

Normalize ==
    /\ ~res.done
    /\ res' = [done |-> TRUE, value |-> <<ScheduleEvent(arg[1]), ScheduleEvent(arg[2])>>]
    /\ log' = Step("normalize", <<>>)
    /\ UNCHANGED <<cache, disk, now, users, running, job, ioFaults, ret, arg>>

NextPair == Normalize

SpecPair == InitPair /\ [][NextPair]_vars

----------------------------------------------------------------------------
(* Properties of ScheduleEvent, checked under SpecPair and SpecEvent *)

\* the attributes of an event that a report shows to the user
VisibleFields ==
    {"subject", "teacher", "room", "event_type", "group", "is_remote", "links",
     "start_time", "end_time"}

\* the fields named as the fingerprint's inputs besides the start time
TrackedFields == {"subject", "teacher", "room", "group", "is_remote", "links"}

Differing(fields, e1, e2) == {f \in fields : e1[f] # e2[f]}

KeyDataOf(e) ==
    KeyData(e.start_time, e.subject, e.teacher, e.room, e.group, e.is_remote, e.links)

\* C17: two events with the same identity key have different fingerprints
\* exactly when they differ in an attribute shown to the user
FingerprintIffVisibleChange ==
    (res.done /\ GetUniqueKey(res.value[1]) = GetUniqueKey(res.value[2]))
        => (res.value[1].hash # res.value[2].hash
                <=> Differing(VisibleFields, res.value[1], res.value[2]) # {})

\* C18: an event's fingerprint is the digest of its tracked fields whenever
\* it is recomputed, and two events that differ in exactly one of cleaned
\* subject, teacher, room, group, remote flag and links, the start being
\* the same, have different digest inputs
SingleFieldChangesKeyData ==
    res.done
        => /\ \A i \in 1..2 : res.value[i].hash = Md5Hex8(KeyDataOf(res.value[i]))
           /\ (/\ res.value[1].start_time = res.value[2].start_time
               /\ Cardinality(Differing(TrackedFields, res.value[1], res.value[2])) = 1)
                  => KeyDataOf(res.value[1]) # KeyDataOf(res.value[2])

SingleFieldChangesKeyDataWitness ==
    /\ res.done
    /\ Differing(TrackedFields, res.value[1], res.value[2]) = {"is_remote"}
    /\ res.value[1].hash # res.value[2].hash

\* C19: the events built from one raw record at two moments have the same
\* identity key, whichever fields the record lacks
SameKeyAtAnyMoment ==
    \A i, k \in 1..Len(res.built) :
        GetUniqueKey(res.built[i].event) = GetUniqueKey(res.built[k].event)

\* C19 as it holds: the same, for the raw records that carry a start time
SameKeyWhenStartGiven ==
    "start_time" \in DOMAIN arg
        => \A i, k \in 1..Len(res.built) :
               GetUniqueKey(res.built[i].event) = GetUniqueKey(res.built[k].event)

SameKeyWhenStartGivenWitness ==
    /\ DOMAIN arg = {"start_time"}
    /\ Len(res.built) = 2
    /\ res.built[1].at # res.built[2].at
    /\ res.built[1].event.end_time # res.built[2].event.end_time
    /\ GetUniqueKey(res.built[1].event) = GetUniqueKey(res.built[2].event)

\* C20: an event read back from its to_dict form, and a cache read back
\* from the file _save_cache writes, equal the original in every field, and
\* so in identity key and fingerprint
RoundTripIdentical ==
    res.reloaded # <<>>
        => /\ res.reloaded[1] = res.built[1].event
           /\ GetUniqueKey(res.reloaded[1]) = GetUniqueKey(res.built[1].event)
           /\ res.reloaded[1].hash = res.built[1].event.hash
           /\ res.cache_reloaded[2] = res.cache_reloaded[1]

RoundTripIdenticalWitness ==
    /\ res.reloaded # <<>>
    /\ Len(res.built) = 2
    /\ res.built[1].event.raw_subject # res.built[1].event.subject
    /\ res.built[1].event.teacher # <<>>
    /\ res.built[1].event.links # <<>>
    /\ res.reloaded[1] = res.built[1].event
    /\ Len(res.cache_reloaded[2]["g1"]) = 2

----------------------------------------------------------------------------
(* ScheduleCache._load_cache on any file *)

\* the dicts an entity's list in the file may hold: events as to_dict wrote
\* them, and a dict without 'start_time', on which from_dict raises KeyError
StoredDicts == {ToDict(e) : e \in FeedEvents}
MalformedDict == [subject |-> <<"Math">>]
FileDicts == StoredDicts \cup {MalformedDict}

FileLists == UNION {[1..k -> FileDicts] : k \in 0..MaxEvents}

\* data.items(): the entities of the file in file order, each with its list
FileEntries ==
    {<<>>}
        \cup {<<[group_id |-> g, events_data |-> l]>> : g \in Groups, l \in FileLists}
        \cup {<<[group_id |-> "g1", events_data |-> l1], [group_id |-> "g2", events_data |-> l2]>> :
                 l1 \in FileLists, l2 \in FileLists}

\* the cache file at start-up: absent, unreadable (open raises OSError), not
\* JSON (json.load raises JSONDecodeError), or a JSON object of entities
CacheFiles ==
    {[state |-> s, entries |-> <<>>] : s \in {"missing", "unreadable", "not_json"}}
        \cup {[state |-> "json", entries |-> en] : en \in FileEntries}

\* ScheduleEvent.from_dict(e): the exception it raises, if any
FromDictRaises(d) == IF "start_time" \in DOMAIN d THEN "none" ELSE "KeyError"

\* [ScheduleEvent.from_dict(e) for e in events_data]
ListRaises(events_data) ==
    IF \A i \in 1..Len(events_data) : FromDictRaises(events_data[i]) = "none"
    THEN "none" ELSE "KeyError"

\* for group_id, events_data in data.items(): the entities are stored one by
\* one until from_dict raises; what was stored before stays in the cache
RECURSIVE LoadLoop(_, _)
LoadLoop(entries, c) ==
    IF entries = <<>> THEN [exc |-> "none", cache |-> c]
    ELSE LET en == Head(entries)
         IN  IF ListRaises(en.events_data) # "none"
             THEN [exc |-> ListRaises(en.events_data), cache |-> c]
             ELSE LoadLoop(Tail(entries),
                           CachePut(c, en.group_id,
                                    [i \in 1..Len(en.events_data) |-> FromDict(en.events_data[i])]))

\* except Exception as e: logger.error(...)
LoadCatches(exc) == TRUE

\* ScheduleCache.__init__ followed by _load_cache: the cache it leaves, or
\* the exception raised to the caller
LoadCacheFile(file) ==
    LET body == CASE file.state = "missing"    -> [exc |-> "none", cache |-> <<>>]
                  [] file.state = "unreadable" -> [exc |-> "OSError", cache |-> <<>>]
                  [] file.state = "not_json"   -> [exc |-> "JSONDecodeError", cache |-> <<>>]
                  [] OTHER                     -> LoadLoop(file.entries, <<>>)
    IN  [raised |-> IF body.exc = "none" \/ LoadCatches(body.exc) THEN "none" ELSE body.exc,
         cache  |-> body.cache]

(* The loader on its own: one start-up for each cache file *)

InitLoad ==
    /\ cache = <<>>
    /\ disk = NoFile
    /\ now = 1
    /\ users = [c \in Chats |-> DefaultSettings]
    /\ running = FALSE
    /\ job = [j \in Jobs |-> IdleJob]
    /\ ioFaults = FALSE
    /\ log = Step("init", <<>>)
    /\ ret = NoCall
    /\ arg \in CacheFiles
    /\ res = NoResult

Load ==
    /\ ~res.done
    /\ res' = [done |-> TRUE, value |-> LoadCacheFile(arg)]
    /\ cache' = LoadCacheFile(arg).cache
    /\ log' = Step("load", <<>>)
    /\ UNCHANGED <<disk, now, users, running, job, ioFaults, ret, arg>>

NextLoad == Load

SpecLoad == InitLoad /\ [][NextLoad]_vars

\* the read of the file failed: it is missing or unreadable, it is not JSON,
\* or some entity's list holds a malformed event
LoadFailed(file) ==
    \/ file.state # "json"
    \/ \E i \in 1..Len(file.entries) :
           \E k \in 1..Len(file.entries[i].events_data) :
               file.entries[i].events_data[k] \notin StoredDicts

\* C21: when the load of the cache file fails at any point, nothing is
\* raised and the cache in memory is empty, so no group has a baseline
FailedLoadLeavesEmptyCache ==
    (res.done /\ LoadFailed(arg))
        => /\ res.value.raised = "none"
           /\ \A g \in Groups : CacheGet(cache, g) = <<>>

----------------------------------------------------------------------------
(* The cache with a file whose writes may fail *)

InitSave ==
    /\ cache = <<>>
    /\ disk = NoFile
    /\ now = 1
    /\ users = [c \in Chats |-> DefaultSettings]
    /\ running = FALSE
    /\ job = [j \in Jobs |-> IdleJob]
    /\ ioFaults = TRUE
    /\ log = Step("init", <<>>)
    /\ ret = NoCall
    /\ arg = NoArg
    /\ res = NoResult

\* update_and_detect_changes(g, new_events) with any outcome of the write
CallUpdateIO(g, new_events) ==
    \E ok \in WriteOutcomes :
      LET r == UpdateAndDetectChanges(cache, disk, g, new_events, now, ok)
      IN  /\ cache' = r.cache
          /\ disk' = r.disk
          /\ log' = Step("update", <<Visit("direct", g, new_events, TRUE)>>)
          /\ ret' = [called |-> TRUE, group_id |-> g, old_events |-> CacheGet(cache, g),
                     new_events |-> new_events, at |-> now, changes |-> r.changes,
                     ok |-> ok, raised |-> r.raised, disk_before |-> disk]
          /\ UNCHANGED <<now, users, running, job, ioFaults, arg, res>>

\* the lists the failing writes are exercised on: the lessons of one room
SaveLists == ListsUpTo(FeedEvents, MaxEvents)

NextSave ==
    \/ \E g \in DirectGroups, new_events \in SaveLists : CallUpdateIO(g, new_events)
    \/ Tick

SpecSave == InitSave /\ [][NextSave]_vars

\* the call reached _save_cache: it took the first-observation branch or
\* found changes or a different count
SaveAttempted(r) ==
    \/ r.old_events = <<>> /\ r.new_events # <<>>
    \/ r.changes # <<>>
    \/ Len(r.old_events) # Len(r.new_events)

TruncatedFileWitness ==
    /\ ret.called
    /\ ret.ok = "write_fails"
    /\ ret.disk_before.exists /\ ret.disk_before.intact
    /\ CacheGet(cache, ret.group_id) # <<>>
    /\ LoadCache(disk) = <<>>

----------------------------------------------------------------------------
(* Further properties of update_and_detect_changes, checked under SpecCache *)

\* some identity key is carried by two events of the list
HasDuplicateKey(events) ==
    \E i, k \in 1..Len(events) : i # k /\ GetUniqueKey(events[i]) = GetUniqueKey(events[k])

\* C23: in the returned change list no identity key is the subject of more
\* than one change record, also when the baseline or the new list holds
\* several events with one identity key
ChangesDeduplicated ==
    ret.called
        => \A k \in KeysOf(ret.old_events) \cup KeysOf(ret.new_events) :
               Cardinality(ChangesFor(ret.changes, k)) <= 1

ChangesDeduplicatedWitness ==
    /\ ret.called
    /\ HasDuplicateKey(ret.old_events)
    /\ Len(ret.changes) = 1
    /\ ret.changes[1].change_type = "modified"

\* duplicates in the new list, reported as one addition
DuplicateAddedOnceWitness ==
    /\ ret.called
    /\ ret.old_events # <<>>
    /\ HasDuplicateKey(ret.new_events)
    /\ Len(ret.changes) = 1
    /\ ret.changes[1].change_type = "added"

----------------------------------------------------------------------------
(* NungParser._split_merged_events *)
(* Here a description is the sequence of its tokens with the whitespace   *)
(* between them kept as tokens of its own (" "); a position is the number *)
(* of tokens before it                                                    *)

MaxTokens == 5      \* longest description, in tokens

\* the description of two merged subgroup lessons
MergedExample ==
    <<"Math", " ", "(pidgr. 1)", " ", "101.aud.", " ", "Smith", " ",
      "(pidgr. 2)", " ", "102.aud.", " ", "Jones">>

\* whitespace, a subgroup marker, a room, a pair of initials, a capitalized
\* word and a word that is none of these
Descriptions ==
    UNION {[1..k -> {" ", "(pidgr. 1)", "101.aud.", "I.P.", "Smith", "math"}] :
               k \in 0..MaxTokens}
        \cup {MergedExample}

\* variant: the chunk is taken as it is cut
StripNothing(text) == text

\* str.strip()
Strip(text) ==
    LET inked == {i \in 1..Len(text) : text[i] # " "}
    IN  IF inked = {} THEN <<>>
        ELSE SubSeq(text, CHOOSE i \in inked : \A k \in inked : i <= k,
                          CHOOSE i \in inked : \A k \in inked : i >= k)

\* list(re.finditer(<subgroup marker>, description)): the markers' places
MarkerPositions(description) ==
    LET at == {i \in 1..Len(description) : description[i] \in SubgroupMarkers}
    IN  [n \in 1..Cardinality(at) |->
            CHOOSE i \in at : Cardinality({k \in at : k < i}) = n - 1]

\* variant: only a description without any marker is returned whole
TooFewMarkersZero(subgroups) == Len(subgroups) < 1

\* if len(subgroups) < 2
TooFewMarkers(subgroups) == Len(subgroups) < 2

\* variant: the initials are looked for before the room
SplitPointInitialsFirst(description, m, nx) ==
    LET span  == (m + 1)..(nx - 1)
        rooms == {i \in span : description[i] \in RoomTokens}
        inits == {i \in span : description[i] = "I.P."}
        caps  == {i \in span : description[i] \in CapWords}
    IN  IF inits # {} THEN CHOOSE i \in inits : \A k \in inits : i <= k
        ELSE IF rooms # {} THEN CHOOSE i \in rooms : \A k \in rooms : i <= k
        ELSE IF caps # {} THEN (CHOOSE i \in caps : \A k \in caps : i >= k) - 1
        ELSE nx - 1

\* split_point for the marker at m when the next marker is at nx: the span
\* between them is searched for a room (the match runs from the first room's
\* digits over every non-whitespace character to the last ".aud." before
\* whitespace), else for initials, else for the last capitalized word
SplitPoint(description, m, nx) ==
    LET span  == (m + 1)..(nx - 1)
        rooms == {i \in span : description[i] \in RoomTokens}
        inits == {i \in span : description[i] = "I.P."}
        caps  == {i \in span : description[i] \in CapWords}
    IN  IF rooms # {}
        THEN LET first == CHOOSE i \in rooms : \A k \in rooms : i <= k
                 glued == {i \in rooms : \A k \in first..i : description[k] # " "}
             IN  CHOOSE i \in glued : \A k \in glued : i >= k
        ELSE IF inits # {} THEN CHOOSE i \in inits : \A k \in inits : i <= k
        ELSE IF caps # {} THEN (CHOOSE i \in caps : \A k \in caps : i >= k) - 1
        ELSE nx - 1

\* the split points of the loop, one per marker, the last at the end
SplitCuts(description) ==
    LET subgroups == MarkerPositions(description)
    IN  [i \in 1..Len(subgroups) |->
            IF i < Len(subgroups)
            THEN SplitPoint(description, subgroups[i], subgroups[i + 1])
            ELSE Len(description)]

\* variant: a description with fewer than two markers is returned trimmed
SplitMergedEventsTrimmed(description) ==
    LET cuts   == SplitCuts(description)
        chunks == [i \in 1..Len(cuts) |->
                      Strip(SubSeq(description, IF i = 1 THEN 1 ELSE cuts[i - 1] + 1, cuts[i]))]
    IN  IF TooFewMarkers(MarkerPositions(description)) THEN <<Strip(description)>>
        ELSE SelectSeq(chunks, LAMBDA chunk : chunk # <<>>)

SplitMergedEvents(description) ==
    LET cuts   == SplitCuts(description)
        chunks == [i \in 1..Len(cuts) |->
                      Strip(SubSeq(description, IF i = 1 THEN 1 ELSE cuts[i - 1] + 1, cuts[i]))]
    IN  IF TooFewMarkers(MarkerPositions(description)) THEN <<description>>
        ELSE SelectSeq(chunks, LAMBDA chunk : chunk # <<>>)

(* The segmenter on its own: one call for each description *)

InitSplit ==
    /\ cache = <<>>
    /\ disk = NoFile
    /\ now = 1
    /\ users = [c \in Chats |-> DefaultSettings]
    /\ running = FALSE
    /\ job = [j \in Jobs |-> IdleJob]
    /\ ioFaults = FALSE
    /\ log = Step("init", <<>>)
    /\ ret = NoCall
    /\ arg \in Descriptions
    /\ res = NoResult

\* the call; cuts keeps the split points the loop chose
Segment ==
    /\ ~res.done
    /\ res' = [done |-> TRUE, value |-> SplitMergedEvents(arg), cuts |-> SplitCuts(arg)]
    /\ log' = Step("split", <<>>)
    /\ UNCHANGED <<cache, disk, now, users, running, job, ioFaults, ret, arg>>

NextSplit == Segment

SpecSplit == InitSplit /\ [][NextSplit]_vars

----------------------------------------------------------------------------
(* Properties of the segmenter, checked under SpecSplit *)

Markers(description) == {i \in 1..Len(description) : description[i] \in SubgroupMarkers}

\* C24: for a description with fewer than two subgroup markers the result
\* is a list of one element, the input as it was given
FewMarkersUnchanged ==
    (res.done /\ Cardinality(Markers(arg)) < 2) => res.value = <<arg>>

FewMarkersUnchangedWitness ==
    /\ res.done
    /\ Cardinality(Markers(arg)) = 1
    /\ arg[1] = " "
    /\ arg[Len(arg)] = " "
    /\ res.value = <<arg>>

\* text without the whitespace at its two ends, said without strip: what
\* is left after the longest blank prefix and suffix are cut
Trimmed(text) ==
    LET inked == {i \in 1..Len(text) : text[i] # " "}
    IN  [n \in 1..Cardinality(inked) + Cardinality({i \in 1..Len(text) :
                 text[i] = " " /\ (\E a \in inked : a < i) /\ (\E b \in inked : b > i)}) |->
            text[n + Cardinality({i \in 1..Len(text) : \A a \in inked : i < a}) ]]

\* C25: for a description with zero or one subgroup marker the result is a
\* list of one element that equals the trimmed input
FewMarkersTrimmed ==
    (res.done /\ Cardinality(Markers(arg)) < 2) => res.value = <<Trimmed(arg)>>

\* C25 as it holds: the one element is the trimmed input exactly when the
\* input has no whitespace at its ends
FewMarkersTrimmedIfClean ==
    (res.done /\ Cardinality(Markers(arg)) < 2)
        => /\ Len(res.value) = 1
           /\ res.value[1] = Trimmed(arg) <=> arg = Trimmed(arg)

FewMarkersTrimmedIfCleanWitness ==
    /\ res.done
    /\ Cardinality(Markers(arg)) = 0
    /\ Len(arg) = 3
    /\ arg = Trimmed(arg)
    /\ arg[2] = " "
    /\ res.value = <<Trimmed(arg)>>

Contains(chunk, tok) == \E i \in 1..Len(chunk) : chunk[i] = tok

\* C26: the description of two merged subgroups is split into two chunks,
\* the first with room 101 and the name that follows it and without room
\* 102, the second with room 102 and its name and without room 101
MergedExampleSplit ==
    (res.done /\ arg = MergedExample)
        => /\ Len(res.value) = 2
           /\ Contains(res.value[1], "101.aud.") /\ Contains(res.value[1], "Smith")
           /\ ~Contains(res.value[1], "102.aud.")
           /\ Contains(res.value[2], "102.aud.") /\ Contains(res.value[2], "Jones")
           /\ ~Contains(res.value[2], "101.aud.")

\* C28: for n >= 2 markers the result has n chunks in input order; each is
\* a stretch of the input between two cuts less the whitespace at its ends,
\* holds exactly one marker, and the stretches follow one another from the
\* start of the input to its end
ChunksPartitionInput ==
    (res.done /\ Cardinality(Markers(arg)) >= 2)
        => LET n == Cardinality(Markers(arg))
           IN  /\ Len(res.value) = n
               /\ \E cuts \in [0..n -> 0..Len(arg)] :
                      /\ cuts[0] = 0
                      /\ cuts[n] = Len(arg)
                      /\ \A i \in 1..n :
                             /\ cuts[i - 1] <= cuts[i]
                             /\ res.value[i] = Trimmed(SubSeq(arg, cuts[i - 1] + 1, cuts[i]))
                             /\ Cardinality(Markers(res.value[i])) = 1

ChunksPartitionInputWitness ==
    /\ res.done
    /\ arg = <<"(pidgr. 1)", "101.aud.", " ", "Smith", "(pidgr. 1)">>
    /\ res.value = << <<"(pidgr. 1)", "101.aud.">>, <<"Smith", "(pidgr. 1)">> >>

\* C29: the split point between two consecutive markers lies between the
\* end of the first and the start of the second; it is the end of the first
\* room token of the span if there is one, else the end of the first pair
\* of initials, else the start of the last capitalized word, else the start
\* of the second marker
SplitPriority ==
    (res.done /\ Cardinality(Markers(arg)) >= 2)
        => \A m, nx \in Markers(arg) :
               (m < nx /\ \A k \in (m + 1)..(nx - 1) : k \notin Markers(arg))
                   => LET i    == Cardinality({k \in Markers(arg) : k <= m})
                          cut  == res.cuts[i]
                          span == (m + 1)..(nx - 1)
                          room(k) == arg[k] \in RoomTokens
                          init(k) == arg[k] = "I.P."
                          cap(k)  == arg[k] \in CapWords
                      IN  /\ m <= cut /\ cut <= nx - 1
                          /\ (\E k \in span : room(k))
                                 => /\ room(cut)
                                    /\ \E f \in span :
                                           /\ room(f)
                                           /\ \A k \in span : k < f => ~room(k)
                                           /\ \A k \in f..cut : arg[k] # " "
                                           /\ \A k \in (cut + 1)..(nx - 1) :
                                                  room(k) => \E b \in cut..k : arg[b] = " "
                          /\ (~(\E k \in span : room(k)) /\ (\E k \in span : init(k)))
                                 => init(cut) /\ \A k \in span : k < cut => ~init(k)
                          /\ (~(\E k \in span : room(k) \/ init(k)) /\ (\E k \in span : cap(k)))
                                 => cap(cut + 1) /\ \A k \in span : k > cut + 1 => ~cap(k)
                          /\ ~(\E k \in span : room(k) \/ init(k) \/ cap(k))
                                 => cut = nx - 1

\* initials and a room in one span: the room decides
SplitPriorityWitness ==
    /\ res.done
    /\ arg = <<"(pidgr. 1)", "I.P.", " ", "101.aud.", "(pidgr. 1)">>
    /\ res.cuts[1] = 4

\* no room: the initials decide, ahead of a capitalized word
SplitAtInitialsWitness ==
    /\ res.done
    /\ arg = <<"(pidgr. 1)", "Smith", "I.P.", "Smith", "(pidgr. 1)">>
    /\ res.cuts[1] = 3

\* neither: the cut falls before the last capitalized word
SplitBeforeCapWitness ==
    /\ res.done
    /\ arg = <<"(pidgr. 1)", "Smith", "math", "Smith", "(pidgr. 1)">>
    /\ res.cuts[1] = 3

----------------------------------------------------------------------------
(* _check_schedule_changes_job with the exceptions its try block can meet: *)
(* a run that passed the guard ends at the end of the loop or at the       *)
(* entity whose processing raised; handlers are left out, the settings     *)
(* are those the chats had chosen when the bot started                     *)

Settings == [group_id : Groups \cup {NoGroup}, change_notifications : BOOLEAN]

\* variant: the flag is reset on the normal path only
FlagAfterRunNoFinally(raised) == raised

\* except Exception as e: logger.error(...)  finally: ... = False
FlagAfterRun(raised) == FALSE

\* where the processing of an entity can raise: before the cache is
\* updated (line 631) or once the changes are there (line 637)
RaisePoints == {"fetch", "format"}

\* how a run stands when it stops: suspended in a send, or ended with the
\* cache and the file as c and d
Suspended(r, rest) ==
    [job |-> [r.job EXCEPT !.queue = r.job.queue \o rest],
     cache |-> r.cache, disk |-> r.disk, visits |-> r.visits, raised |-> FALSE]

RunEnded(c, d, visits, raised) ==
    [job |-> IdleJob, cache |-> c, disk |-> d, visits |-> visits, raised |-> raised]

\* group g raises: at its fetch, or at the formatting of the changes u that
\* update_and_detect_changes has just stored
RaiseAt(r, u, g, new_events, at) ==
    IF at = "format" /\ ~SkipsEmptyFetch(r.cache, g, new_events) /\ u.changes # <<>>
    THEN RunEnded(u.cache, u.disk, Append(r.visits, Visit("job", g, new_events, TRUE)), TRUE)
    ELSE RunEnded(r.cache, r.disk, r.visits, TRUE)

\* the outcome of the loop once its first n groups are processed, r being
\* what RunLoop made of them: with n < Len(queue) the group after them
\* raises at the point given, which ends the run
LoopWithRaise(queue, fetch, n, at, r) ==
    IF r.job.pc # "idle"
    THEN Suspended(r, SubSeq(queue, n + 1, Len(queue)))
    ELSE IF n = Len(queue)
    THEN RunEnded(r.cache, r.disk, r.visits, FALSE)
    ELSE RaiseAt(r, UpdateAndDetectChanges(r.cache, r.disk, queue[n + 1], fetch[queue[n + 1]],
                                           now, "ok"),
                 queue[n + 1], fetch[queue[n + 1]], at)

\* what a fetch returns to the job: nothing or one lesson
JobFetches == ListsUpTo(FeedEvents, 1)

InitJob ==
    /\ cache = <<>>
    /\ disk = NoFile
    /\ now = 1
    /\ users \in [Chats -> Settings]
    /\ running = FALSE
    /\ job = [j \in Jobs |-> IdleJob]
    /\ ioFaults = FALSE
    /\ log = Step("init", <<>>)
    /\ ret = NoCall
    /\ arg = NoArg
    /\ res = NoResult

\* the run stops as r says
RunStops(j, r, op) ==
    /\ cache' = r.cache
    /\ disk' = r.disk
    /\ job' = [job EXCEPT ![j] = r.job]
    /\ running' = IF r.job.pc = "idle" THEN FlagAfterRun(r.raised) ELSE TRUE
    /\ log' = Step(op, r.visits)
    /\ ret' = [called |-> TRUE, ended |-> r.job.pc = "idle", raised |-> r.raised]
    /\ UNCHANGED <<now, users, ioFaults, arg, res>>

\* the part of a run between two awaits, from the guard or from a send
RunFrom(j, queue, op) ==
    \E fetch \in [Range(queue) -> JobFetches], n \in 0..Len(queue), at \in RaisePoints :
      RunStops(j, LoopWithRaise(queue, fetch, n, at,
                                RunLoop(SubSeq(queue, 1, n), cache, disk, users, now, fetch,
                                        [g \in Range(queue) |-> "ok"], <<>>)),
               op)

\* the job queue invokes the job
JobInvoked(j) ==
    /\ job[j].pc = "idle"
    /\ IF GuardBlocks(running)
       THEN /\ log' = Step("job_blocked", <<>>)
            /\ UNCHANGED <<cache, disk, now, users, running, job, ioFaults, ret, arg, res>>
       ELSE RunFrom(j, ActiveGroups(users), "job_run")

\* the awaited send returns or raises (except: pass), and the run goes on
SendReturns(j) ==
    /\ job[j].pc = "send"
    /\ IF Len(job[j].targets) > 1
       THEN /\ job' = [job EXCEPT ![j].targets = Tail(job[j].targets)]
            /\ log' = Step("job_resume", <<>>)
            /\ UNCHANGED <<cache, disk, now, users, running, ioFaults, ret, arg, res>>
       ELSE RunFrom(j, job[j].queue, "job_resume")

NextJob ==
    \/ \E j \in Jobs : JobInvoked(j)
    \/ \E j \in Jobs : SendReturns(j)

\* run_repeating keeps invoking the job, and every send ends: the bot's requests
\* carry timeouts
SpecJobLive ==
    /\ InitJob
    /\ [][NextJob]_vars
    /\ WF_vars(\E j \in Jobs : JobInvoked(j))
    /\ WF_vars(\E j \in Jobs : SendReturns(j))

\* C27: a run that passed the guard has cleared the flag when it has ended,
\* at the end of the loop or at an exception; so a raised flag is always
\* cleared later, and the job passes the guard again and again
FlagClearedAndJobRunsAgain ==
    /\ []((\A j \in Jobs : job[j].pc = "idle") => ~running)
    /\ running ~> ~running
    /\ []<>(log.op = "job_run")

\* a run that was suspended in a send has ended at an exception, and the
\* flag is down
FlagClearedAfterRaiseWitness ==
    /\ ret.called /\ ret.ended /\ ret.raised
    /\ log.op = "job_resume"
    /\ \A j \in Jobs : job[j].pc = "idle"
    /\ ~running

----------------------------------------------------------------------------
(* What one run of the job fetches and whom it reports to, checked under *)
(* Spec, where the handlers run while a send is awaited                  *)

VisitedGroups(visits) == [i \in 1..Len(visits) |-> visits[i].group_id]

\* the groups the suspended run still has to process
PendingQueue(jb) ==
    IF \E j \in Jobs : jb[j].pc = "send"
    THEN jb[CHOOSE j \in Jobs : jb[j].pc = "send"].queue
    ELSE <<>>

Subscribed(us, c, g) == us[c].group_id = g /\ us[c].change_notifications

\* a run fetches the groups that were subscribed when it started, in order
\* and once each: what it has fetched and what it still holds make up that list
FetchesStartSnapshot ==
    [][/\ (log'.op = "job_start" /\ ~GuardBlocks(running))
              => VisitedGroups(log'.visits) \o PendingQueue(job') = ActiveGroups(users)
       /\ (log'.op = "job_resume" /\ \E j \in Jobs : job[j].pc = "send" /\ Len(job[j].targets) = 1)
              => VisitedGroups(log'.visits) \o PendingQueue(job') = PendingQueue(job)]_vars

\* C30: a run fetches exactly the distinct groups subscribed at its start,
\* each once and one after another, and every send of a report about group
\* G goes to a chat that has selected G and has change notifications on at
\* the moment the send is issued
FetchesSnapshotSendsToSubscribers ==
    [][/\ (log'.op = "job_start" /\ ~GuardBlocks(running))
              => VisitedGroups(log'.visits) \o PendingQueue(job') = ActiveGroups(users)
       /\ (log'.op = "job_resume" /\ \E j \in Jobs : job[j].pc = "send" /\ Len(job[j].targets) = 1)
              => VisitedGroups(log'.visits) \o PendingQueue(job') = PendingQueue(job)
       /\ \A j \in Jobs :
              (job'[j].pc = "send" /\ job'[j] # job[j])
                  => Subscribed(users', Head(job'[j].targets), job'[j].group_id)]_vars

----------------------------------------------------------------------------
(* update_and_detect_changes called again with the input of the last call *)

\* the caller repeats its last call, at the same time or later
RepeatUpdate ==
    /\ ret.called
    /\ LET r == UpdateAndDetectChanges(cache, disk, ret.group_id, ret.new_events, now, "ok")
       IN  /\ cache' = r.cache
           /\ disk' = r.disk
           /\ log' = Step("repeat", <<Visit("direct", ret.group_id, ret.new_events, TRUE)>>)
           /\ ret' = [called |-> TRUE, group_id |-> ret.group_id,
                      old_events |-> CacheGet(cache, ret.group_id),
                      new_events |-> ret.new_events, at |-> now, changes |-> r.changes,
                      first |-> ret.changes, first_at |-> ret.at]
           /\ UNCHANGED <<now, users, running, job, ioFaults, arg, res>>

NextRepeat ==
    \/ \E g \in DirectGroups, new_events \in EventLists : CallUpdate(g, new_events)
    \/ RepeatUpdate
    \/ Tick

SpecRepeat == Init /\ [][NextRepeat]_vars

\* C31: a second call with the same group and the same new_events, made no
\* earlier than the first, returns no changes and leaves the baseline as
\* the first call left it
RepeatedCallIdempotent ==
    log.op = "repeat"
        => /\ ret.changes = <<>>
           /\ CacheGet(cache, ret.group_id) = ret.old_events

\* the first call reported changes, the clock moved, the second reports none
RepeatedCallIdempotentWitness ==
    /\ log.op = "repeat"
    /\ ret.first # <<>>
    /\ ret.first_at < ret.at
    /\ ret.changes = <<>>
    /\ CacheGet(cache, ret.group_id) = ret.new_events

\* the first call left the old baseline in place (nothing to report, same
\* count, other lessons), and so does the second
RepeatedCallKeepsOldWitness ==
    /\ log.op = "repeat"
    /\ ret.changes = <<>>
    /\ ret.old_events # ret.new_events
    /\ ret.old_events # <<>> /\ ret.new_events # <<>>
    /\ CacheGet(cache, ret.group_id) = ret.old_events

----------------------------------------------------------------------------
(* update_and_detect_changes on a feed that moves the end of a lesson *)

\* one room's lessons, each lasting one minute or two
RescheduledEvents ==
    {ScheduleEvent([FeedRecord(s, "101.aud.") EXCEPT !.end_time = s + n]) :
         s \in StartTimes, n \in {1, 2}}

NextEnds ==
    \/ \E g \in DirectGroups, new_events \in ListsUpTo(RescheduledEvents, MaxEvents) :
           CallUpdate(g, new_events)
    \/ Tick

SpecEnds == Init /\ [][NextEnds]_vars

\* the identity keys whose lesson (the last one in the list that carries
\* the key) has not ended at time t
LiveKeys(events, t) ==
    {k \in KeysOf(events) : ~Ended(MapGet(events, k), t)}

\* C32: once a call with a non-empty new list has returned, the baseline
\* and the new list hold the same identity keys among the lessons not
\* ended at the time of the call, with the same fingerprint for each
BaselineAgreesOnLiveLessons ==
    (ret.called /\ ret.new_events # <<>>)
        => LET base == CacheGet(cache, ret.group_id)
           IN  /\ LiveKeys(base, ret.at) = LiveKeys(ret.new_events, ret.at)
               /\ \A k \in LiveKeys(base, ret.at) :
                      MapGet(base, k).hash = MapGet(ret.new_events, k).hash

----------------------------------------------------------------------------
(* The other groups during an update, checked under Spec *)

\* the groups update_and_detect_changes was called for in the step just taken
UpdatedGroups(visits) == {visits[i].group_id : i \in {n \in 1..Len(visits) : visits[n].called}}

\* C33: a step changes the in-memory baseline of no group other than those
\* update_and_detect_changes was called for, and every rewrite of the file
\* holds the baselines of all groups as they are in memory after the step
OtherGroupsKept ==
    [][/\ \A h \in Groups \ UpdatedGroups(log'.visits) :
              /\ h \in DOMAIN cache <=> h \in DOMAIN cache'
              /\ CacheGet(cache', h) = CacheGet(cache, h)
       /\ disk' # disk => disk'.exists /\ LoadCache(disk') = cache']_vars

\* g2 has just been given a baseline by /group while g1 had one; memory and
\* file hold both
OtherGroupsKeptWitness ==
    /\ log.op = "group"
    /\ UpdatedGroups(log.visits) = {"g2"}
    /\ DOMAIN cache = {"g1", "g2"}
    /\ cache["g1"] # <<>> /\ cache["g2"] # <<>>
    /\ LoadCache(disk) = cache

----------------------------------------------------------------------------
(* Detected changes and their notifications, checked under Spec *)

\* the cache as it was before the i-th call of the step, c being the cache
\* before the step
RECURSIVE CacheBefore(_, _, _, _)
CacheBefore(visits, i, c, t) ==
    IF i = 1 THEN c
    ELSE IF visits[i - 1].called
         THEN UpdateAndDetectChanges(CacheBefore(visits, i - 1, c, t), NoFile,
                                     visits[i - 1].group_id, visits[i - 1].new_events,
                                     t, "ok").cache
         ELSE CacheBefore(visits, i - 1, c, t)

\* the i-th call of the step returned changes about a group that has
\* subscribers
OwesReport(visits, i, c, us, t) ==
    /\ visits[i].called
    /\ UpdateAndDetectChanges(CacheBefore(visits, i, c, t), NoFile, visits[i].group_id,
                              visits[i].new_events, t, "ok").changes # <<>>
    /\ Targets(us, visits[i].group_id) # <<>>

\* C34: whenever a call of update_and_detect_changes returns changes about
\* a group that has subscribers (and so replaces the baseline), the caller
\* goes on to send the report to those subscribers, whether the call comes
\* from a run of the job or from /group
DetectedChangesReported ==
    [][\A i \in 1..Len(log'.visits) :
           OwesReport(log'.visits, i, cache, users', now)
               => \E j \in Jobs :
                      /\ job'[j].pc = "send"
                      /\ job'[j].group_id = log'.visits[i].group_id
                      /\ job'[j].targets = Targets(users', log'.visits[i].group_id)
                      /\ i = Len(log'.visits)]_vars


\* C35: a run of the job that gets an empty list from the feed for a group
\* that has subscribers and a baseline with a lesson not yet ended reports
\* the lesson as removed: it calls update_and_detect_changes with the empty
\* list and goes on to send the report about that group
EmptyFeedReportsRemoved ==
    [][\A i \in 1..Len(log'.visits) :
           LET v    == log'.visits[i]
               base == CacheGet(CacheBefore(log'.visits, i, cache, now), v.group_id)
           IN  (/\ v.caller = "job"
                /\ v.new_events = <<>>
                /\ Targets(users, v.group_id) # <<>>
                /\ \E n \in 1..Len(base) : ~Ended(base[n], now))
                   => /\ v.called
                      /\ \E j \in Jobs : job'[j].pc = "send" /\ job'[j].group_id = v.group_id]_vars

----------------------------------------------------------------------------
(* ScheduleBot._pin_message_with_management for one chat: the three jobs   *)
(* that send and pin messages may each be inside it, suspended in the      *)
(* await of the pin or of the unpin.  res holds settings.pinned_messages   *)
(* and the invocations, ret what the last resumed invocation did           *)

MAX_PINNED_MESSAGES == 5
MaxMessages == 7        \* messages sent to the chat

Pinners == {"weekly", "daily", "changes"}

IdleCall == [pc |-> "idle", message_id |-> 0, oldest |-> 0]

\* variant: one message more is let in before the oldest goes
OverLimitLate(pinned) == Len(pinned) > MAX_PINNED_MESSAGES + 1

\* if len(settings.pinned_messages) > MAX_PINNED_MESSAGES
OverLimit(pinned) == Len(pinned) > MAX_PINNED_MESSAGES

InitPin ==
    /\ cache = <<>>
    /\ disk = NoFile
    /\ now = 1
    /\ users = [c \in Chats |-> DefaultSettings]
    /\ running = FALSE
    /\ job = [j \in Jobs |-> IdleJob]
    /\ ioFaults = FALSE
    /\ log = Step("init", <<>>)
    /\ ret = NoCall
    /\ arg = NoArg
    /\ res = [pinned |-> <<>>, sent |-> 0, calls |-> [p \in Pinners |-> IdleCall]]

\* a message has been sent and the function is called with its id; it
\* suspends in pin_chat_message
PinCalled(p) ==
    /\ res.calls[p].pc = "idle"
    /\ res.sent < MaxMessages
    /\ res' = [res EXCEPT !.sent = res.sent + 1,
                          !.calls[p] = [pc |-> "pin", message_id |-> res.sent + 1, oldest |-> 0]]
    /\ log' = Step("pin_called", <<>>)
    /\ UNCHANGED <<cache, disk, now, users, running, job, ioFaults, ret, arg>>

\* pin_chat_message returns or raises; on success the id is appended and,
\* over the limit, the oldest is popped and its unpin awaited
PinReturns(p) ==
    /\ res.calls[p].pc = "pin"
    /\ \E pin_ok \in BOOLEAN :
         LET added == Append(res.pinned, res.calls[p].message_id)
         IN  /\ res' = IF ~pin_ok
                       THEN [res EXCEPT !.calls[p] = IdleCall]
                       ELSE IF OverLimit(added)
                       THEN [res EXCEPT !.pinned = Tail(added),
                                        !.calls[p] = [pc |-> "unpin",
                                                      message_id |-> res.calls[p].message_id,
                                                      oldest |-> Head(added)]]
                       ELSE [res EXCEPT !.pinned = added, !.calls[p] = IdleCall]
             /\ ret' = [called |-> TRUE, pin_ok |-> pin_ok, before |-> res.pinned,
                        message_id |-> res.calls[p].message_id, by |-> p]
             /\ log' = Step("pin_returns", <<>>)
             /\ UNCHANGED <<cache, disk, now, users, running, job, ioFaults, arg>>

\* unpin_chat_message returns or raises (logged); the list is saved
UnpinReturns(p) ==
    /\ res.calls[p].pc = "unpin"
    /\ res' = [res EXCEPT !.calls[p] = IdleCall]
    /\ log' = Step("unpin_returns", <<>>)
    /\ UNCHANGED <<cache, disk, now, users, running, job, ioFaults, ret, arg>>

NextPin ==
    \/ \E p \in Pinners : PinCalled(p)
    \/ \E p \in Pinners : PinReturns(p)
    \/ \E p \in Pinners : UnpinReturns(p)

SpecPin == InitPin /\ [][NextPin]_vars

\* C36: the list of tracked pinned messages never has more than
\* MAX_PINNED_MESSAGES entries; a message whose pin failed is not added; a
\* pinned message is added at the end, and when that exceeds the limit the
\* oldest tracked id is the one removed, and its unpin is the one requested
PinnedListBounded ==
    /\ Len(res.pinned) <= MAX_PINNED_MESSAGES
    /\ log.op = "pin_returns"
           => IF ~ret.pin_ok
              THEN res.pinned = ret.before
              ELSE IF Len(ret.before) = MAX_PINNED_MESSAGES
              THEN /\ res.pinned = Tail(ret.before) \o <<ret.message_id>>
                   /\ res.calls[ret.by].pc = "unpin"
                   /\ res.calls[ret.by].oldest = Head(ret.before)
              ELSE /\ res.pinned = ret.before \o <<ret.message_id>>
                   /\ res.calls[ret.by].pc = "idle"

\* a sixth message is pinned while the list is full and another invocation
\* still awaits its pin
PinnedListBoundedWitness ==
    /\ log.op = "pin_returns"
    /\ ret.pin_ok
    /\ Len(ret.before) = MAX_PINNED_MESSAGES
    /\ Len(res.pinned) = MAX_PINNED_MESSAGES
    /\ res.calls[ret.by].oldest = Head(ret.before)
    /\ \E p \in Pinners : res.calls[p].pc = "pin"

\* a pin fails and the list stays as it was
PinFailedWitness ==
    /\ log.op = "pin_returns"
    /\ ~ret.pin_ok
    /\ ret.before # <<>>
    /\ res.pinned = ret.before

----------------------------------------------------------------------------
(* Who may change a chat's settings: /group and the toggle button with the *)
(* admin check spelled out                                                 *)

ChatTypes == {"private", "group"}

\* what get_member tells about the requesting user; "error" stands for a
\* get_member that raised
MemberStatuses == {"owner", "administrator", "member", "error"}

\* variant: every user of the chat passes
IsUserAdminAnyMember(chat_type, member) == chat_type = "private" \/ member # "error"

\* _is_user_admin
IsUserAdmin(chat_type, member) ==
    IF chat_type = "private" THEN TRUE
    ELSE member \in {"owner", "administrator"}

Request(op, c, chat_type, member, wanted) ==
    [called |-> TRUE, op |-> op, chat |-> c, chat_type |-> chat_type, member |-> member,
     wanted |-> wanted]

\* /group in chat c from a user with the given standing, for the group the
\* name resolves to (NoGroup: no name given, or none found)
GroupRequest(c) ==
    \E chat_type \in ChatTypes, member \in MemberStatuses, gid \in Groups \cup {NoGroup},
       events \in JobFetches :
      /\ IF IsUserAdmin(chat_type, member) /\ gid # NoGroup
         THEN /\ users' = UpdateUserGroup(users, c, gid)
              /\ cache' = UpdateAndDetectChanges(cache, disk, gid, events, now, "ok").cache
              /\ disk' = UpdateAndDetectChanges(cache, disk, gid, events, now, "ok").disk
         ELSE UNCHANGED <<users, cache, disk>>
      /\ ret' = Request("group", c, chat_type, member, gid)
      /\ log' = Step("group", <<>>)
      /\ UNCHANGED <<now, running, job, ioFaults, arg, res>>

\* the toggle_changes button pressed in chat c
ToggleRequest(c) ==
    \E chat_type \in ChatTypes, member \in MemberStatuses :
      /\ users' = IF IsUserAdmin(chat_type, member)
                  THEN UpdateUserSetting(users, c, ~users[c].change_notifications)
                  ELSE users
      /\ ret' = Request("toggle", c, chat_type, member, NoGroup)
      /\ log' = Step("toggle", <<>>)
      /\ UNCHANGED <<cache, disk, now, running, job, ioFaults, arg, res>>

NextAdmin ==
    \/ \E c \in Chats : GroupRequest(c)
    \/ \E c \in Chats : ToggleRequest(c)

SpecAdmin == Init /\ [][NextAdmin]_vars

\* C37: in a chat that is not private, a request from a user who is not
\* owner or administrator, or whose check failed, changes no settings and
\* nothing of the cache; and a chat's group and its toggle change only in
\* a step that serves a request made in that chat by a user who passed
SettingsChangeByAdminsOnly ==
    [][/\ (/\ log'.op \in {"group", "toggle"}
           /\ ret'.chat_type # "private"
           /\ ret'.member \notin {"owner", "administrator"})
              => (users' = users /\ cache' = cache /\ disk' = disk)
       /\ \A c \in Chats :
              users'[c] # users[c]
                  => /\ log'.op \in {"group", "toggle"}
                     /\ ret'.chat = c
                     /\ ret'.chat_type = "private" \/ ret'.member \in {"owner", "administrator"}]_vars

\* a plain member of a group chat has asked for another group, and the
\* chat still has the one its administrator chose
NonAdminRefusedWitness ==
    /\ ret.called /\ ret.op = "group"
    /\ ret.chat_type = "group" /\ ret.member = "member"
    /\ ret.wanted = "g2"
    /\ users[ret.chat].group_id = "g1"
    /\ "g2" \notin DOMAIN cache

\* the check failed for the user who pressed the toggle: it stays on
CheckFailedWitness ==
    /\ ret.called /\ ret.op = "toggle"
    /\ ret.chat_type = "group" /\ ret.member = "error"
    /\ users[ret.chat].change_notifications

----------------------------------------------------------------------------
(* NungParser.search_global and the age of its directory cache.  now is   *)
(* the clock in seconds; res is _global_cache: whether a timestamp is set *)
(* and its value; ret tells what the last call did                        *)

MaxDays == 1        \* the clock runs over the days 0..MaxDays

\* the instants at which calls are made: each day's start, and one hour,
\* one hour and a second, and two hours into it
Instants == {d * 86400 + s : d \in 0..MaxDays, s \in {0, 3600, 3601, 7200}}

\* timedelta.seconds of a difference of d seconds: the part within the day
TimedeltaSeconds(d) == d % 86400

\* not _global_cache['timestamp'] or (now - timestamp).seconds > 3600
Expired(c, t) == ~c.set \/ TimedeltaSeconds(t - c.timestamp) > 3600

InitSearch ==
    /\ cache = <<>>
    /\ disk = NoFile
    /\ now \in Instants
    /\ users = [c \in Chats |-> DefaultSettings]
    /\ running = FALSE
    /\ job = [j \in Jobs |-> IdleJob]
    /\ ioFaults = FALSE
    /\ log = Step("init", <<>>)
    /\ ret = NoCall
    /\ arg = NoArg
    /\ res = [set |-> FALSE, timestamp |-> 0]

\* search_global(query): the directories are fetched anew and stamped, or
\* the cached copy is used
SearchGlobal ==
    /\ res' = IF Expired(res, now) THEN [set |-> TRUE, timestamp |-> now] ELSE res
    /\ ret' = [called |-> TRUE, at |-> now, had_copy |-> res.set, stamped |-> res.timestamp,
               refetched |-> Expired(res, now)]
    /\ log' = Step("search", <<>>)
    /\ UNCHANGED <<cache, disk, now, users, running, job, ioFaults, arg>>

\* time passes until a later instant
ClockAdvances ==
    /\ \E t \in Instants : t > now /\ now' = t
    /\ log' = Step("tick", <<>>)
    /\ UNCHANGED <<cache, disk, users, running, job, ioFaults, ret, arg, res>>

NextSearch ==
    \/ SearchGlobal
    \/ ClockAdvances

SpecSearch == InitSearch /\ [][NextSearch]_vars

\* C38: a call refetches the directories when there is no cached copy or
\* the copy is more than 3600 seconds old, however long ago it was taken,
\* and answers from the copy otherwise
RefetchWhenOlderThanHour ==
    ret.called
        => (ret.refetched <=> (~ret.had_copy \/ ret.at - ret.stamped > 3600))

====
